---- MODULE Spec2Model ----
(***************************************************************************)
(* Model of the dependency-aware test-orchestration engine (backend-api). *)
(*                                                                         *)
(*   dependency.service.ts   createDependency / deleteDependency           *)
(*   graph.service.ts        buildExecutionGraph (Kahn, levels)            *)
(*   orchestrator.service.ts resolveVariables / executeRun                 *)
(*   parser.service.ts       processOpenParams (catalog write)             *)
(*   analysis.service.ts     analyzeProjectVariables (candidates)          *)
(*   project service         createProject / deleteProject (cascades)      *)
(*                                                                         *)
(* The persistence store is a set of tables (one variable per table).      *)
(* The specifications share the tables and the handlers:                   *)
(*   SpecPlan        the registry and the planner, query by query          *)
(*   SpecRun         one executeRun, task by task, beside one other call   *)
(*   Spec            ingest and the registry, statement by statement       *)
(*   SpecAnalysis    ingest, the registry and the candidate analysis       *)
(*   SpecIngest      two concurrent ingests, statement by statement        *)
(*   SpecCandidates  one ingest, the analysis batch by batch, and a reader *)
(*   SpecBody        one ingest for every order of the body content types  *)
(*   SpecProject     deleteProject, createProject and an ingest            *)
(***************************************************************************)
EXTENDS Integers, Sequences, FiniteSets, Bags, TLC

\* ------------------------------------------------------------------------
\* Bounds of the model
\* ------------------------------------------------------------------------
\* ApiDependency rows that exist at one time.
MaxDeps == 4
\* Content types listed by one request body (SpecBody).
MaxContentTypes == 3

\* ------------------------------------------------------------------------
\* The catalog universe: two projects, and the Apis their documents declare.
\* An Api's id stands for its unique key (projectId, method, path).
\* ------------------------------------------------------------------------
Projects == {"p1", "p2"}

ApiIds == {"a1", "a2", "a3", "b1", "b2"}

\* apis.project_id
ProjectOf(a) == IF a \in {"a1", "a2", "a3", "a4", "a5", "a6"} THEN "p1" ELSE "p2"

\* The order in which the documents list their operations: path by path
\* (Object.entries(paths)) and, within a path, method by method, so that POST
\* /orders (a1) and GET /orders (a4) follow each other.
DocumentOrder == <<"a1", "a4", "a2", "a3", "a5", "a6", "b1", "b2">>

\* The clients that call createDependency concurrently.
Callers == {"c1", "c2"}

\* The clients that call processOpenParams concurrently.
Ingesters == {"i1", "i2"}

\* contentType.includes(word), for the content types of the documents
ContentTypes ==
    {"application/json", "application/vnd.api+json", "multipart/form-data",
     "application/x-www-form-urlencoded", "application/xml"}
ContentTypesWith(word) ==
    IF word = "json" THEN {"application/json", "application/vnd.api+json"}
    ELSE IF word = "multipart" THEN {"multipart/form-data"}
    ELSE IF word = "urlencoded" THEN {"application/x-www-form-urlencoded"}
    ELSE {}

\* A mapping {targetVar: sourcePath} is the set of its entries.
NoMapping == {}
IdMapping == {<<"id", "id">>}

StatusMapping == {<<"status", "state">>}
RandomFieldMapping == {<<"randomField", "id">>}

AuthMapping == {<<"Authorization", "accessToken">>}

\* Object.keys(mapping)
Keys(m) == {e[1] : e \in m}

\* Object.values(mapping)
Values(m) == {e[2] : e \in m}

\* apis.method and apis.path (the path as its segments)
MethodOf(a) == IF a \in {"a1", "a3", "a5", "a6", "b1"} THEN "POST" ELSE "GET"
PathOf(a) ==
    IF a \in {"a1", "a4", "b1"} THEN <<"orders">>
    ELSE IF a \in {"a2", "b2"} THEN <<"orders", "{id}">>
    ELSE IF a = "a5" THEN <<"orders", "{id}", "cancel">>
    ELSE IF a = "a6" THEN <<"payments">>
    ELSE <<"login">>

VARIABLES
    apis,          \* Api rows: the set of existing Api ids
    variables,     \* Variable rows: [apiId, name, location, varType]
    deps,          \* ApiDependency rows: [sourceApiId, targetApiId, mapping, isRequired]
    apiSpecs,      \* ApiSpec rows: [projectId, specHash]
    requests,      \* ApiRequest rows: [apiId, bodySchema]
    responses,     \* ApiResponse rows: [apiId, statusCode, schema]
    candidates,    \* DependencyCandidate rows, a bag of
                   \* [sourceApiId, targetApiId, mapping, confidence] (no unique key)
    calls,         \* the createDependency calls in progress, per caller
    analysis,      \* the analyzeProjectVariables call in progress
    ingests,       \* the processOpenParams calls in progress, per ingester
    projects,      \* Project rows: the set of existing project ids
    issued,        \* the (id, name) of the rows that createProject has inserted
    testRuns,      \* TestRun rows: [id, projectId]
    deletion,      \* the deleteProject call in progress: [pc, projectId, apiIds]
    testRun,       \* completedAt of the run's TestRun row: "none" (no row), "started", "completed"
    executions,    \* TestExecution rows of the run: [id, apiId, status, errorMessage];
                   \* the id of a row is the Api its task was started for
    artifacts,     \* ExecutionArtifact rows: the apiId of their execution
    run,           \* executeRun's locals: [pc, projectId, dependencies, executionLevels, layer]
    tasks,         \* the per-endpoint task of executeRun: [pc, targetDependencies, error, response]
    context,       \* executeRun's context: entries [apiId, status, response]
    httpCalls,     \* the Apis whose endpoint was called (what the target saw)
    planner,       \* the buildExecutionGraph call in progress: [pc, projectId, dependencies]
    ret            \* the handler call that returned last, and what it returned

catVars == <<apiSpecs, requests, responses>>
projVars == <<projects, issued, testRuns, deletion>>
dbVars == <<apis, variables, deps, catVars, candidates, projVars>>
procVars == <<calls, analysis, ingests>>
runVars == <<testRun, executions, artifacts, run, tasks, context, httpCalls, planner>>
vars == <<apis, variables, deps, apiSpecs, requests, responses, candidates, calls, analysis, ingests,
          projects, issued, testRuns, deletion,
          testRun, executions, artifacts, run, tasks, context, httpCalls, planner, ret>>

NoResponse == [status |-> 0, data |-> "none"]
NoTask == [pc |-> "none", targetDependencies |-> <<>>, error |-> "none", response |-> NoResponse]
NoRun ==
    [pc |-> "idle", projectId |-> "none", dependencies |-> {}, executionLevels |-> <<>>,
     layer |-> 0]
NoPlanner == [pc |-> "idle", projectId |-> "none", dependencies |-> {}]

\* before executeRun is called
InitNoRun ==
    /\ testRun = "none"
    /\ executions = {}
    /\ artifacts = {}
    /\ run = NoRun
    /\ tasks = [a \in ApiIds |-> NoTask]
    /\ context = {}
    /\ httpCalls = {}
    /\ planner = NoPlanner

NoCall == [op |-> "none", error |-> "none"]

IdleCall ==
    [pc |-> "idle", sourceApiId |-> "none", targetApiId |-> "none", mapping |-> {},
     isRequired |-> TRUE, pending |-> {}, key |-> "none"]
\* no analysis in progress.  apis and responses are the rows the first findMany
\* returned (their order is used for the deterministic candidates only), all
\* is allCandidates, sent counts the batches the loop has been
\* through and failed holds the ones whose catch block ran; previous and rows
\* are the project's candidates before the deleteMany and the rows the loop
\* is to create
IdleAnalysis ==
    [pc |-> "idle", projectId |-> "none", apis |-> {}, responses |-> {}, all |-> <<>>,
     batches |-> 0, sent |-> 0, failed |-> {},
     previous |-> EmptyBag, rows |-> <<>>, pending |-> <<>>, saved |-> 0, skippedSelf |-> 0]

NoDocument ==
    [projectId |-> "none", valid |-> FALSE, openapi |-> "none", specHash |-> "none",
     operations |-> {}]

IdleIngest ==
    [pc |-> "idle", doc |-> NoDocument, specFound |-> FALSE, specCreated |-> FALSE,
     i |-> 0, k |-> 0, held |-> {}, done |-> {}, updated |-> {}, log |-> <<>>]

IdleDeletion == [pc |-> "idle", projectId |-> "none", apiIds |-> {}]

\* no handler call in progress
InitNoProcess ==
    /\ calls = [c \in Callers |-> IdleCall]
    /\ analysis = IdleAnalysis
    /\ ingests = [g \in Ingesters |-> IdleIngest]
    /\ deletion = IdleDeletion

\* both projects exist and no run has been recorded
InitProjects ==
    /\ projects = Projects
    /\ issued = {}
    /\ testRuns = {}

\* the rest of a catalog in which every Api was ingested with one 200 response
InitCatalogRest ==
    /\ apiSpecs = {[projectId |-> p, specHash |-> "orders"] : p \in Projects}
    /\ requests = {[apiId |-> a, bodySchema |-> [name |-> "none", properties |-> {}]] : a \in ApiIds}
    /\ responses = {[apiId |-> a, statusCode |-> 200, schema |-> "object"] : a \in ApiIds}
    /\ candidates = EmptyBag
    /\ InitNoProcess
    /\ InitProjects

\* ------------------------------------------------------------------------
\* Sequence helpers
\* ------------------------------------------------------------------------
Range(s) == {s[i] : i \in 1..Len(s)}

\* Every order in which the rows of S can be returned.
RECURSIVE Orders(_)
Orders(S) ==
    IF S = {} THEN {<<>>}
    ELSE UNION {{<<x>> \o o : o \in Orders(S \ {x})} : x \in S}

\* filter of a sequence, keeping the order (Array.prototype.filter)
RECURSIVE SelectSeqBy(_, _)
SelectSeqBy(s, keep) ==
    IF s = <<>> THEN <<>>
    ELSE (IF Head(s) \in keep THEN <<Head(s)>> ELSE <<>>) \o SelectSeqBy(Tail(s), keep)

\* position of x in s (0 when absent)
PosIn(x, s) == IF \E i \in 1..Len(s) : s[i] = x THEN CHOOSE i \in 1..Len(s) : s[i] = x ELSE 0

\* ------------------------------------------------------------------------
\* Dependency registry (dependency.service.ts)
\* ------------------------------------------------------------------------
SelfDependencyError == "Self-dependency not allowed."

DepRow(s, t, m, r) == [sourceApiId |-> s, targetApiId |-> t, mapping |-> m, isRequired |-> r]

\* the row of the unique key (source_api_id, target_api_id), if any
DepsOfPair(D, s, t) == {d \in D : d.sourceApiId = s /\ d.targetApiId = t}

\* mutant of UpsertDependency: a plain create, on a table without the unique key
InsertDependency(D, s, t, m, r) == D \cup {DepRow(s, t, m, r)}

\* prisma.apiDependency.upsert on sourceApiId_targetApiId
UpsertDependency(D, s, t, m, r) == (D \ DepsOfPair(D, s, t)) \cup {DepRow(s, t, m, r)}

\* prisma.variable.updateMany({where: {apiId, name}, data: {varType: 'dependent'}}),
\* once per key of the mapping
MarkDependent(V, t, names) ==
    {IF v.apiId = t /\ v.name \in names THEN [v EXCEPT !.varType = "dependent"] ELSE v : v \in V}

UniqueViolation == "P2002: Unique constraint failed"
ForeignKeyViolation == "P2003: Foreign key constraint failed"
RecordNotFound == "P2025: Record not found"

\* an id that no row of api_dependencies has: one that was never given out, or
\* the id of a row deleted since (a row created again for its pair has a new id)
NoDependency == DepRow("none", "none", NoMapping, TRUE)

\* deleteDependency(id), the id given as the row that has it (or NoDependency):
\* prisma.apiDependency.delete throws when no row has the id
DeleteDependency(d) ==
    /\ IF d \notin deps
       THEN /\ ret' = [op |-> "deleteDependency", error |-> RecordNotFound]
            /\ UNCHANGED deps
       ELSE /\ deps' = deps \ {d}
            /\ ret' = [op |-> "deleteDependency", error |-> "none"]
    /\ UNCHANGED <<apis, variables, catVars, candidates, procVars, projVars, runVars>>

\* ------------------------------------------------------------------------
\* createDependency step by step (dependency.service.ts): the upsert and each
\* updateMany are separate statements, other calls run in between.  An upsert
\* is one INSERT .. ON CONFLICT DO UPDATE when the client can hand it to the
\* database, else a SELECT followed by an INSERT or an UPDATE; both are modelled.
\* ------------------------------------------------------------------------
CallReturn(c, s, t, error) ==
    /\ calls' = [calls EXCEPT ![c] = IdleCall]
    /\ ret' = [op |-> "createDependency", sourceApiId |-> s, targetApiId |-> t, error |-> error]

\* after the upsert: the loop over Object.keys(mapping)
CallAfterUpsert(c, s, t, m, r) ==
    IF Keys(m) = {}
    THEN CallReturn(c, s, t, "none")
    ELSE /\ calls' = [calls EXCEPT ![c] = [pc |-> "mark", sourceApiId |-> s, targetApiId |-> t,
                                           mapping |-> m, isRequired |-> r, pending |-> Keys(m),
                                           key |-> "none"]]
         /\ UNCHANGED ret

\* the self check, then the upsert as one statement of the database
CreateDependencyCall(c, s, t, m, r) ==
    /\ calls[c].pc = "idle"
    /\ IF s = t
       THEN /\ CallReturn(c, s, t, SelfDependencyError)
            /\ UNCHANGED deps
       ELSE IF s \notin apis \/ t \notin apis
       THEN /\ CallReturn(c, s, t, ForeignKeyViolation)
            /\ UNCHANGED deps
       ELSE /\ deps' = UpsertDependency(deps, s, t, m, r)
            /\ CallAfterUpsert(c, s, t, m, r)
    /\ UNCHANGED <<apis, variables, catVars, candidates, analysis, ingests, projVars, runVars>>

\* the self check, then the SELECT of an upsert done by the client
CreateDependencyFind(c, s, t, m, r) ==
    /\ calls[c].pc = "idle"
    /\ s # t
    /\ calls' = [calls EXCEPT ![c] =
                   [pc |-> IF DepsOfPair(deps, s, t) # {} THEN "found" ELSE "absent",
                    sourceApiId |-> s, targetApiId |-> t, mapping |-> m, isRequired |-> r,
                    pending |-> {}, key |-> "none"]]
    /\ UNCHANGED <<dbVars, analysis, ingests, runVars, ret>>

\* the UPDATE or the INSERT of an upsert done by the client
CreateDependencyWrite(c) ==
    LET s == calls[c].sourceApiId
        t == calls[c].targetApiId
        m == calls[c].mapping
        r == calls[c].isRequired
        exists == DepsOfPair(deps, s, t) # {}
    IN /\ calls[c].pc \in {"found", "absent"}
       /\ IF calls[c].pc = "found" /\ ~exists
          THEN /\ CallReturn(c, s, t, RecordNotFound)
               /\ UNCHANGED deps
          ELSE IF calls[c].pc = "absent" /\ exists
          THEN /\ CallReturn(c, s, t, UniqueViolation)
               /\ UNCHANGED deps
          ELSE IF s \notin apis \/ t \notin apis
          THEN /\ CallReturn(c, s, t, ForeignKeyViolation)
               /\ UNCHANGED deps
          ELSE /\ deps' = UpsertDependency(deps, s, t, m, r)
               /\ CallAfterUpsert(c, s, t, m, r)
       /\ UNCHANGED <<apis, variables, catVars, candidates, analysis, ingests, projVars, runVars>>

\* the rows an updateMany of the Variables k of Api t would write are held by
\* an open transaction of processOpenParams, which deleted them
VariablesLocked(t, k) ==
    /\ \E g \in Ingesters : t \in ingests[g].updated
    /\ \E v \in variables : v.apiId = t /\ v.name = k

\* the loop of createDependency goes on after the updateMany of key k
CallAfterMark(c, k) ==
    IF calls[c].pending = {k}
    THEN CallReturn(c, calls[c].sourceApiId, calls[c].targetApiId, "none")
    ELSE /\ calls' = [calls EXCEPT ![c].pc = "mark", ![c].pending = @ \ {k}, ![c].key = "none"]
         /\ UNCHANGED ret

\* one prisma.variable.updateMany of the loop; the call returns after the last.
\* A statement whose rows are held by an open transaction waits for its end,
\* which is when it takes effect; the call goes on after that
CreateDependencyMark(c) ==
    /\ \/ /\ calls[c].pc = "mark"
          /\ \E k \in calls[c].pending :
                IF VariablesLocked(calls[c].targetApiId, k)
                THEN /\ calls' = [calls EXCEPT ![c].pc = "wait", ![c].key = k]
                     /\ UNCHANGED <<variables, ret>>
                ELSE /\ variables' = MarkDependent(variables, calls[c].targetApiId, {k})
                     /\ CallAfterMark(c, k)
       \/ /\ calls[c].pc = "resumed"
          /\ UNCHANGED variables
          /\ CallAfterMark(c, calls[c].key)
    /\ UNCHANGED <<apis, deps, catVars, candidates, analysis, ingests, projVars, runVars>>

\* ------------------------------------------------------------------------
\* Execution planner (graph.service.ts)
\* ------------------------------------------------------------------------
CycleError == "Cycle detected in API dependencies. Graph is not a DAG."

\* prisma.apiDependency.findMany({where: {sourceApi: {projectId}}})
DependenciesOfProject(D, p) == {d \in D : ProjectOf(d.sourceApiId) = p}

\* prisma.api.findMany({where: {projectId}}): the rows; the query has no
\* orderBy, so the store returns them in an order of its choice
ApisOfProject(A, p) == {a \in A : ProjectOf(a) = p}

\* keys that inDegree[dep.targetApiId] = (... || 0) + 1 adds for targets that are no node
RECURSIVE ForeignKeys(_, _)
ForeignKeys(depSeq, seen) ==
    IF depSeq = <<>> THEN <<>>
    ELSE LET t == Head(depSeq).targetApiId
         IN IF t \in seen THEN ForeignKeys(Tail(depSeq), seen)
            ELSE <<t>> \o ForeignKeys(Tail(depSeq), seen \cup {t})

\* the keys of inDegree, in insertion order (the order of for..in)
InDegreeKeys(apiSeq, depSeq) == apiSeq \o ForeignKeys(depSeq, Range(apiSeq))

\* inDegree after the two forEach loops
InDegreeInit(apiSeq, depSeq) ==
    [k \in Range(InDegreeKeys(apiSeq, depSeq)) |->
        Cardinality({i \in 1..Len(depSeq) : depSeq[i].targetApiId = k})]

\* the queue of the keys whose in-degree is 0
InitialQueue(apiSeq, depSeq) ==
    LET inDeg == InDegreeInit(apiSeq, depSeq)
        IsZero(k) == inDeg[k] = 0
    IN SelectSeq(InDegreeKeys(apiSeq, depSeq), IsZero)

\* for (const usage of usages) { inDegree[neighbor]--; if (=== 0) nextLevel.push }
RECURSIVE VisitUsages(_, _, _)
VisitUsages(usages, inDeg, nextLevel) ==
    IF usages = <<>> THEN [inDegree |-> inDeg, nextLevel |-> nextLevel]
    ELSE LET neighbor == Head(usages).targetApiId
             d == inDeg[neighbor] - 1
         IN VisitUsages(Tail(usages), [inDeg EXCEPT ![neighbor] = d],
                        IF d = 0 THEN Append(nextLevel, neighbor) ELSE nextLevel)

\* for (const nodeId of currentLevel) { sortedOrder.push(nodeId); ... }
RECURSIVE VisitLevel(_, _, _, _, _)
VisitLevel(level, depSeq, inDeg, sorted, nextLevel) ==
    IF level = <<>>
    THEN [inDegree |-> inDeg, sortedOrder |-> sorted, nextLevel |-> nextLevel]
    ELSE LET nodeId == Head(level)
             IsUsage(d) == d.sourceApiId = nodeId
             r == VisitUsages(SelectSeq(depSeq, IsUsage), inDeg, nextLevel)
         IN VisitLevel(Tail(level), depSeq, r.inDegree, Append(sorted, nodeId), r.nextLevel)

\* while (currentLevel.length > 0) { executionLevels.push(currentLevel); ... }
RECURSIVE KahnLevels(_, _, _, _, _)
KahnLevels(currentLevel, depSeq, inDeg, sorted, levels) ==
    IF currentLevel = <<>>
    THEN [sortedOrder |-> sorted, executionLevels |-> levels]
    ELSE LET r == VisitLevel(currentLevel, depSeq, inDeg, sorted, <<>>)
         IN KahnLevels(r.nextLevel, depSeq, r.inDegree, r.sortedOrder,
                       Append(levels, currentLevel))

\* the cycle check: sortedOrder.length !== apis.length
CycleCheckFails(sorted, apiSeq) == Len(sorted) # Len(apiSeq)

\* buildExecutionGraph over the rows as fetched: what it returns or throws
BuildGraph(apiSeq, depSeq) ==
    LET k == KahnLevels(InitialQueue(apiSeq, depSeq), depSeq,
                        InDegreeInit(apiSeq, depSeq), <<>>, <<>>)
    IN IF CycleCheckFails(k.sortedOrder, apiSeq)
       THEN [error |-> CycleError, sortedOrder |-> <<>>, executionLevels |-> <<>>]
       ELSE [error |-> "none", sortedOrder |-> k.sortedOrder,
             executionLevels |-> k.executionLevels]

\* what the sort can return for the rows of the two queries: either findMany
\* gives its rows in an order the store chooses
BuildGraphs(A, D) == {BuildGraph(apiSeq, depSeq) : apiSeq \in Orders(A), depSeq \in Orders(D)}

\* buildExecutionGraph(projectId), first query: prisma.apiDependency.findMany
BuildExecutionGraphDependencies(p) ==
    /\ planner.pc = "idle"
    /\ planner' = [pc |-> "apis", projectId |-> p,
                   dependencies |-> DependenciesOfProject(deps, p)]
    /\ UNCHANGED <<dbVars, procVars, testRun, executions, artifacts, run, tasks, context,
                   httpCalls, ret>>

\* buildExecutionGraph, second query and the sort: prisma.api.findMany, then
\* Kahn's algorithm
BuildExecutionGraph ==
    /\ planner.pc = "apis"
    /\ \E g \in BuildGraphs(ApisOfProject(apis, planner.projectId), planner.dependencies) :
          ret' = [op |-> "buildExecutionGraph", error |-> g.error,
                  projectId |-> planner.projectId,
                  sortedOrder |-> g.sortedOrder, executionLevels |-> g.executionLevels]
    /\ planner' = NoPlanner
    /\ UNCHANGED <<dbVars, procVars, testRun, executions, artifacts, run, tasks, context,
                   httpCalls>>

\* ------------------------------------------------------------------------
\* Run executor (orchestrator.service.ts)
\* ------------------------------------------------------------------------
\* What the target may answer: a response (status, body) or no response at all.
\* The statuses stand for their classes (< 200, 2xx, 3xx, >= 400); a body is a
\* JSON object or the JSON value null.
HttpResponses ==
    {[status |-> 199, data |-> "object"], [status |-> 200, data |-> "object"],
     [status |-> 200, data |-> "null"], [status |-> 302, data |-> "object"],
     [status |-> 404, data |-> "object"]}

\* (err as Error).message of the errors a task can catch; the transport error
\* is that of a refused connection, which names the address of the target
DependencyFailedMessage(src) == "Dependency failed: Source " \o src \o " not ready or failed."
TransportErrorMessage == "connect ECONNREFUSED 127.0.0.1:80"
\* the TypeError of sourceResult.response[sourcePath] on a null body; the
\* path is that of the first entry of the mapping (the mappings of the
\* model have one entry at most)
NullResponseMessage(sourcePath) ==
    "Cannot read properties of null (reading '" \o sourcePath \o "')"
FirstSourcePath(m) == (CHOOSE e \in m : TRUE)[2]
ApiNotFoundMessage == "API not found"

\* context[apiId]
ContextOf(ctx, a) == {e \in ctx : e.apiId = a}

\* mutant of SourceUnready: the failure threshold of the status classification (>= 400)
SourceUnreadyFrom400(ctx, src) ==
    \/ ContextOf(ctx, src) = {}
    \/ \E e \in ContextOf(ctx, src) : e.status >= 400

\* !sourceResult || sourceResult.status >= 300
SourceUnready(ctx, src) ==
    \/ ContextOf(ctx, src) = {}
    \/ \E e \in ContextOf(ctx, src) : e.status >= 300

\* resolveVariables: the message of the error it throws, "none" when it returns
RECURSIVE ResolveVariables(_, _)
ResolveVariables(dependencies, ctx) ==
    IF dependencies = <<>> THEN "none"
    ELSE LET dep == Head(dependencies)
         IN IF SourceUnready(ctx, dep.sourceApiId)
            THEN DependencyFailedMessage(dep.sourceApiId)
            ELSE IF dep.mapping # {} /\ \E e \in ContextOf(ctx, dep.sourceApiId) : e.response = "null"
                 THEN NullResponseMessage(FirstSourcePath(dep.mapping))
                 ELSE ResolveVariables(Tail(dependencies), ctx)

\* const status = response.status < 400 ? 'PASSED' : 'FAILED'
ExecutionStatus(s) == IF s < 400 THEN "PASSED" ELSE "FAILED"

\* mutant of LayerSettled: Promise.race / Promise.any instead of Promise.all
LayerSettledAny(T, level) == \E a \in Range(level) : T[a].pc = "done"

\* await Promise.all(promises): every task of the level has settled
LayerSettled(T, level) == \A a \in Range(level) : T[a].pc = "done"

\* level.map(async (apiId) => ...): the tasks of a level start
StartTasks(T, level) == [a \in ApiIds |-> IF a \in Range(level) THEN [NoTask EXCEPT !.pc = "start"] ELSE T[a]]

\* the level being executed
CurrentLevel == run.executionLevels[run.layer]

\* the id of the TestRun row the run creates
RunId == "run"

\* executeRun: prisma.testRun.create, outside the try: for a project that does
\* not exist, test_runs_project_id_fkey rejects the insert and the call rejects
RunCreate(p) ==
    /\ run.pc = "idle"
    /\ IF p \notin projects
       THEN /\ run' = [run EXCEPT !.pc = "done", !.projectId = p]
            /\ ret' = [op |-> "executeRun", status |-> "REJECTED", error |-> ForeignKeyViolation]
            /\ UNCHANGED <<testRun, testRuns>>
       ELSE /\ testRun' = "started"
            /\ testRuns' = testRuns \cup {[id |-> RunId, projectId |-> p]}
            /\ run' = [run EXCEPT !.pc = "created", !.projectId = p]
            /\ UNCHANGED ret
    /\ UNCHANGED <<apis, variables, deps, catVars, candidates, projects, issued, deletion,
                   procVars, executions, artifacts, tasks, context, httpCalls, planner>>

\* executeRun, in buildExecutionGraph: prisma.apiDependency.findMany
RunPlanDependencies ==
    /\ run.pc = "created"
    /\ run' = [run EXCEPT !.pc = "planning",
                          !.dependencies = DependenciesOfProject(deps, run.projectId)]
    /\ UNCHANGED <<dbVars, procVars, testRun, executions, artifacts, tasks, context, httpCalls,
                   planner, ret>>

\* executeRun, in buildExecutionGraph: prisma.api.findMany and the sort, then
\* the first level starts; a throw of the planner is caught by the outer catch
\* and the call returns ERROR
RunPlan ==
    /\ run.pc = "planning"
    /\ \E g \in BuildGraphs(ApisOfProject(apis, run.projectId), run.dependencies) :
            IF g.error # "none"
            THEN /\ run' = [run EXCEPT !.pc = "done"]
                 /\ ret' = [op |-> "executeRun", status |-> "ERROR", error |-> g.error]
                 /\ UNCHANGED tasks
            ELSE IF g.executionLevels = <<>>
            THEN /\ run' = [run EXCEPT !.pc = "completing"]
                 /\ UNCHANGED <<tasks, ret>>
            ELSE /\ run' = [run EXCEPT !.pc = "layer", !.executionLevels = g.executionLevels,
                                       !.layer = 1]
                 /\ tasks' = StartTasks(tasks, g.executionLevels[1])
                 /\ UNCHANGED ret
    /\ UNCHANGED <<dbVars, procVars, testRun, executions, artifacts, context, httpCalls, planner>>

\* task: prisma.testExecution.create({status: 'RUNNING'}), outside the task's
\* try: for an Api that was deleted, test_executions_api_id_fkey rejects the
\* insert, the task rejects, Promise.all rejects with it and the outer catch
\* returns ERROR; the other tasks of the level go on
TaskCreateExecution(a) ==
    /\ tasks[a].pc = "start"
    /\ IF a \notin apis
       THEN /\ tasks' = [tasks EXCEPT ![a].pc = "rejected", ![a].error = ForeignKeyViolation]
            /\ IF run.pc = "layer"
               THEN /\ run' = [run EXCEPT !.pc = "done"]
                    /\ ret' = [op |-> "executeRun", status |-> "ERROR",
                               error |-> ForeignKeyViolation]
               ELSE UNCHANGED <<run, ret>>
            /\ UNCHANGED executions
       ELSE /\ executions' = executions \cup
                   {[id |-> a, apiId |-> a, status |-> "RUNNING", errorMessage |-> "none"]}
            /\ tasks' = [tasks EXCEPT ![a].pc = "created"]
            /\ UNCHANGED <<run, ret>>
    /\ UNCHANGED <<dbVars, procVars, testRun, artifacts, context, httpCalls, planner>>

\* task: prisma.api.findUnique({include: {targetDependencies: true}})
TaskFetchApi(a) ==
    /\ tasks[a].pc = "created"
    /\ IF a \notin apis
       THEN tasks' = [tasks EXCEPT ![a].pc = "failing", ![a].error = ApiNotFoundMessage]
       ELSE \E depSeq \in Orders({d \in deps : d.targetApiId = a}) :
                tasks' = [tasks EXCEPT ![a].pc = "fetched", ![a].targetDependencies = depSeq]
    /\ UNCHANGED <<dbVars, procVars, testRun, executions, artifacts, run, context, httpCalls,
                   planner, ret>>

\* task: resolveVariables, then the request is sent (axios); a throw goes to the catch
TaskResolveAndSend(a) ==
    /\ tasks[a].pc = "fetched"
    /\ LET err == ResolveVariables(tasks[a].targetDependencies, context)
       IN IF err # "none"
          THEN /\ tasks' = [tasks EXCEPT ![a].pc = "failing", ![a].error = err]
               /\ UNCHANGED httpCalls
          ELSE /\ tasks' = [tasks EXCEPT ![a].pc = "inflight"]
               /\ httpCalls' = httpCalls \cup {a}
    /\ UNCHANGED <<dbVars, procVars, testRun, executions, artifacts, run, context, planner, ret>>

\* mutant of TaskResponse: the context is reassigned to the one entry
\* (context = {[apiId]: ...}) instead of being updated at one key
TaskResponseReplace(a, resp) ==
    /\ tasks[a].pc = "inflight"
    /\ context' = {[apiId |-> a, status |-> resp.status, response |-> resp.data]}
    /\ tasks' = [tasks EXCEPT ![a].pc = "responded", ![a].response = resp]
    /\ UNCHANGED <<dbVars, procVars, testRun, executions, artifacts, run, httpCalls, planner, ret>>

\* task: the response arrives; context[apiId] = {response, status}
TaskResponse(a, resp) ==
    /\ tasks[a].pc = "inflight"
    /\ context' = (context \ ContextOf(context, a))
                     \cup {[apiId |-> a, status |-> resp.status, response |-> resp.data]}
    /\ tasks' = [tasks EXCEPT ![a].pc = "responded", ![a].response = resp]
    /\ UNCHANGED <<dbVars, procVars, testRun, executions, artifacts, run, httpCalls, planner, ret>>

\* task: axios rejects (no response): the catch takes over
TaskTransportError(a) ==
    /\ tasks[a].pc = "inflight"
    /\ tasks' = [tasks EXCEPT ![a].pc = "failing", ![a].error = TransportErrorMessage]
    /\ UNCHANGED <<dbVars, procVars, testRun, executions, artifacts, run, context, httpCalls,
                   planner, ret>>

\* task: prisma.executionArtifact.create({testExecutionId: execution.id})
TaskSaveArtifact(a) ==
    /\ tasks[a].pc = "responded"
    /\ artifacts' = artifacts \cup {a}
    /\ tasks' = [tasks EXCEPT ![a].pc = "artifact"]
    /\ UNCHANGED <<dbVars, procVars, testRun, executions, run, context, httpCalls, planner, ret>>

\* prisma.testExecution.update({where: {id: execution.id}})
UpdateExecution(E, id, status, msg) ==
    {IF e.id = id THEN [e EXCEPT !.status = status, !.errorMessage = msg] ELSE e : e \in E}

\* task: prisma.testExecution.update({data: {status}})
TaskUpdateStatus(a) ==
    /\ tasks[a].pc = "artifact"
    /\ executions' = UpdateExecution(executions, a, ExecutionStatus(tasks[a].response.status), "none")
    /\ tasks' = [tasks EXCEPT ![a].pc = "done"]
    /\ UNCHANGED <<dbVars, procVars, testRun, artifacts, run, context, httpCalls, planner, ret>>

\* task, catch: prisma.testExecution.update({data: {status: 'FAILED', errorMessage}})
TaskCatch(a) ==
    /\ tasks[a].pc = "failing"
    /\ executions' = UpdateExecution(executions, a, "FAILED", tasks[a].error)
    /\ tasks' = [tasks EXCEPT ![a].pc = "done"]
    /\ UNCHANGED <<dbVars, procVars, testRun, artifacts, run, context, httpCalls, planner, ret>>

\* executeRun: Promise.all resolved; the next level starts, or the loop ends
RunAdvance ==
    /\ run.pc = "layer"
    /\ LayerSettled(tasks, CurrentLevel)
    /\ IF run.layer < Len(run.executionLevels)
       THEN /\ run' = [run EXCEPT !.layer = run.layer + 1]
            /\ tasks' = StartTasks(tasks, run.executionLevels[run.layer + 1])
       ELSE /\ run' = [run EXCEPT !.pc = "completing"]
            /\ UNCHANGED tasks
    /\ UNCHANGED <<dbVars, procVars, testRun, executions, artifacts, context, httpCalls,
                   planner, ret>>

\* executeRun: prisma.testRun.update({completedAt}) and return COMPLETED
RunComplete ==
    /\ run.pc = "completing"
    /\ testRun' = "completed"
    /\ run' = [run EXCEPT !.pc = "done"]
    /\ ret' = [op |-> "executeRun", status |-> "COMPLETED", error |-> "none"]
    /\ UNCHANGED <<dbVars, procVars, executions, artifacts, tasks, context, httpCalls, planner>>

\* ------------------------------------------------------------------------
\* Ingest (parser.service.ts, processOpenParams).  A document is what
\* SwaggerParser.validate returns: its openapi version, its hash and, per
\* operation, the Variables and the ApiResponses the loop derives from it.
\* ------------------------------------------------------------------------
Variable(a, name, location, varType) ==
    [apiId |-> a, name |-> name, location |-> location, varType |-> varType]

\* a schema: its name and the keys of schema.properties
Schema(name, properties) == [name |-> name, properties |-> properties]
NoSchema == Schema("none", {})

\* an operation: its parameters (with the synthesized Authorization, if any),
\* requestBody.content as the list of its (content type, schema) entries, and
\* its responses
OperationWithBody(a, vs, content, rs) ==
    [apiId |-> a, variables |-> vs, content |-> content, responses |-> rs]

Operation(a, vs, rs) == OperationWithBody(a, vs, <<>>, rs)

DocOrders ==
    [projectId |-> "p1", valid |-> TRUE, openapi |-> "3.0.3", specHash |-> "orders",
     operations |->
        {Operation("a1", {}, {<<201, "object">>}),
         Operation("a2", {<<"id", "path", "user_input">>}, {<<200, "object">>}),
         Operation("a3", {<<"Authorization", "header", "user_input">>}, {<<200, "token">>})}]

DocSecured ==
    [projectId |-> "p1", valid |-> TRUE, openapi |-> "3.1.0", specHash |-> "secured",
     operations |->
        {Operation("a1", {<<"Authorization", "header", "synthetic">>}, {<<201, "object">>}),
         Operation("a2", {<<"id", "path", "user_input">>,
                          <<"Authorization", "header", "user_input">>}, {<<200, "object">>})}]

DocSwagger2 ==
    [projectId |-> "p1", valid |-> TRUE, openapi |-> "", specHash |-> "swagger2",
     operations |-> {Operation("a1", {<<"id", "query", "user_input">>}, {<<200, "object">>})}]

\* the documents ingested beside the registry calls, and beside the analysis
RegistryDocuments == {DocSecured, DocSwagger2}
Documents == {DocOrders, DocSwagger2}

\* a document SwaggerParser.validate rejects
DocInvalid ==
    [projectId |-> "p1", valid |-> FALSE, openapi |-> "3.0.3", specHash |-> "invalid",
     operations |-> {Operation("a1", {}, {<<200, "object">>})}]

\* a document with a response schema that refers to itself
DocCircular ==
    [projectId |-> "p1", valid |-> TRUE, openapi |-> "3.0.3", specHash |-> "circular",
     operations |->
        {Operation("a1", {}, {<<201, "object">>}),
         Operation("a2", {<<"id", "path", "user_input">>}, {<<200, "circular">>})}]

\* a document with a response schema that JSON.stringify accepts as a part of
\* the document and rejects by itself (its toJSON throws for the key "")
DocThrowing ==
    [projectId |-> "p1", valid |-> TRUE, openapi |-> "3.0.3", specHash |-> "throwing",
     operations |->
        {Operation("a1", {}, {<<201, "object">>}),
         Operation("a2", {<<"id", "path", "user_input">>}, {<<200, "throwing">>})}]

\* a document whose POST /orders has a body, its content types listed with
\* multipart first
DocUpload ==
    [projectId |-> "p1", valid |-> TRUE, openapi |-> "3.0.3", specHash |-> "upload",
     operations |->
        {OperationWithBody("a1", {},
                           <<<<"multipart/form-data", Schema("form", {"file"})>>,
                             <<"application/json", Schema("json", {"item", "quantity"})>>>>,
                           {<<201, "object">>})}]

\* a shop: login returns an accessToken; POST /orders is secured by a bearer
\* scheme and declares no Authorization parameter; GET /orders/{id} declares
\* its Authorization header; GET /orders returns an array
DocShop ==
    [projectId |-> "p1", valid |-> TRUE, openapi |-> "3.0.3", specHash |-> "shop",
     operations |->
        {OperationWithBody("a1", {<<"Authorization", "header", "synthetic">>},
                           <<<<"application/json", Schema("json", {"item"})>>>>,
                           {<<201, "object">>}),
         Operation("a2", {<<"id", "path", "user_input">>,
                          <<"Authorization", "header", "user_input">>}, {<<200, "object">>}),
         Operation("a3", {}, {<<200, "token">>}),
         Operation("a4", {<<"status", "query", "user_input">>}, {<<200, "array">>}),
         Operation("a5", {<<"id", "path", "user_input">>}, {<<200, "object">>}),
         OperationWithBody("a6", {},
                           <<<<"application/json", Schema("json", {"amount"})>>>>,
                           {<<201, "object">>})}]

\* a service whose only secured operation declares no Authorization parameter
DocBearer ==
    [projectId |-> "p1", valid |-> TRUE, openapi |-> "3.0.3", specHash |-> "bearer",
     operations |->
        {Operation("a3", {<<"username", "query", "user_input">>}, {<<200, "token">>}),
         Operation("a4", {<<"Authorization", "header", "synthetic">>}, {<<200, "array">>})}]

AnalysisDocuments == {DocOrders, DocShop, DocBearer}

\* Documents with one operation, POST /orders, for every list of up to
\* three content types and with or without a query parameter; the schema of a
\* content type is named after it, and the hash stands for the content.
ContentOrders ==
    {q \in UNION {[1..n -> ContentTypes] : n \in 0..MaxContentTypes} :
        \A i, j \in 1..Len(q) : i # j => q[i] # q[j]}

ContentOf(types) == [i \in 1..Len(types) |-> <<types[i], Schema(types[i], {"item"})>>]

BodyDocument(types, params) ==
    [projectId |-> "p1", valid |-> TRUE, openapi |-> "3.0.3", specHash |-> <<types, params>>,
     operations |-> {OperationWithBody("a1", params, ContentOf(types), {<<201, "object">>})}]

BodyDocuments ==
    {BodyDocument(types, params) :
        types \in ContentOrders, params \in {{}, {<<"page", "query", "user_input">>}}}

IngestDocuments ==
    {DocOrders, DocSecured, DocUpload, DocSwagger2, DocInvalid, DocCircular, DocThrowing}

\* version.startsWith('3.')
IsOpenApi3(version) == version \in {"3.0.3", "3.1.0"}

\* JSON.stringify(apiSpec) throws on a dereferenced document that contains a cycle
IsSerializable(doc) == \A o \in doc.operations : \A x \in o.responses : x[2] # "circular"

\* the message SwaggerParser.validate rejects DocInvalid with
ParserMessage == "[object Object] is not a valid Openapi API definition"
ValidationError(message) == "OpenAPI Validation Failed: " \o message
InvalidVersionError(version) == "Invalid OpenAPI version: " \o version \o ". Only 3.x is supported."
\* the TypeError of JSON.stringify for the schema named circular, an object
\* whose property next is the schema itself
CircularError ==
    "Converting circular structure to JSON\n    --> starting at object with constructor 'Object'"
    \o "\n    |     property 'properties' -> object with constructor 'Object'"
    \o "\n    --- property 'next' closes the circle"
TransactionTimeout == "P2028: Transaction API error"

\* what makes processOpenParams throw before it opens the transaction
PreconditionError(doc) ==
    IF ~doc.valid THEN ValidationError(ParserMessage)
    ELSE IF ~IsOpenApi3(doc.openapi) THEN InvalidVersionError(doc.openapi)
    ELSE IF ~IsSerializable(doc) THEN CircularError
    ELSE "none"

\* the choice testParserLogic makes (parser_fix_test.ts): the first content
\* type that contains json, else multipart, else urlencoded, else the first
PreferredBodySchema(content) ==
    LET Has(w) == {i \in 1..Len(content) : content[i][1] \in ContentTypesWith(w)}
        First(S) == content[CHOOSE i \in S : \A j \in S : i <= j][2]
    IN IF content = <<>> THEN NoSchema
       ELSE IF Has("json") # {} THEN First(Has("json"))
       ELSE IF Has("multipart") # {} THEN First(Has("multipart"))
       ELSE IF Has("urlencoded") # {} THEN First(Has("urlencoded"))
       ELSE content[1][2]

\* bodySchema: the schema of Object.keys(operation.requestBody.content)[0]
BodySchema(content) == IF content = <<>> THEN NoSchema ELSE content[1][2]

\* extractVariablesFromSchema(bodySchema, 'body'): one Variable per property
BodyVariables(a, schema) == {Variable(a, k, "body", "user_input") : k \in schema.properties}

\* The catalog tables, as one value.
Catalog ==
    [apis |-> apis, apiSpecs |-> apiSpecs, requests |-> requests, responses |-> responses,
     variables |-> variables]

SetCatalog(cat) ==
    /\ apis' = cat.apis
    /\ apiSpecs' = cat.apiSpecs
    /\ requests' = cat.requests
    /\ responses' = cat.responses
    /\ variables' = cat.variables

\* the rows one operation stores for its Api
RequestRow(o) == [apiId |-> o.apiId, bodySchema |-> BodySchema(o.content)]
ResponseRows(o) ==
    {[apiId |-> o.apiId, statusCode |-> x[1], schema |-> x[2]] : x \in o.responses}
VariableRows(o) ==
    {Variable(o.apiId, v[1], v[2], v[3]) : v \in o.variables}
    \cup BodyVariables(o.apiId, BodySchema(o.content))

\* the members of S as a list (the document lists them in some order)
SeqOf(S) == CHOOSE q \in Orders(S) : TRUE

\* Object.entries(operation.responses)
ResponseSeq(o) == SeqOf(ResponseRows(o))

\* allVariables: the declared parameters, the synthesized Authorization, then
\* the body variables
VariableSeq(o) ==
    LET Parameters(T) == {Variable(o.apiId, v[1], v[2], v[3]) : v \in {x \in o.variables : x[3] \in T}}
    IN SeqOf(Parameters({"user_input"})) \o SeqOf(Parameters({"synthetic"}))
       \o SeqOf(BodyVariables(o.apiId, BodySchema(o.content)))

\* the operations of a document, in the order of its paths
OperationsOf(doc) ==
    LET ids == {o.apiId : o \in doc.operations}
        idSeq == SelectSeqBy(DocumentOrder, ids)
    IN [i \in 1..Len(idSeq) |-> CHOOSE o \in doc.operations : o.apiId = idSeq[i]]

\* ------------------------------------------------------------------------
\* The statements of the transaction, and what each does to the tables.
\* ------------------------------------------------------------------------
SpecRow(doc) == [projectId |-> doc.projectId, specHash |-> doc.specHash]

\* a statement of the tx client: the call, and the row it is about (for a
\* deleteMany and an update, the apiId of its where clause)
Statement(op, row) == [op |-> op, row |-> row]

\* mutant of DeleteMany: the where clause is ignored
DeleteManyAll(rows, a) == {}

\* mutant of DeleteMany: nothing is deleted
DeleteManyNone(rows, a) == rows

\* tx.apiRequest / apiResponse / variable .deleteMany({where: {apiId}})
DeleteMany(rows, a) == {x \in rows : x.apiId # a}

\* tx.variable.upsert on apiId_name_location
UpsertVariable(rows, v) ==
    {x \in rows : ~(x.apiId = v.apiId /\ x.name = v.name /\ x.location = v.location)} \cup {v}

\* the tables after statement s.  api.update writes operationId, summary and
\* authType, which are no columns of the model
Execute(cat, s) ==
    CASE s.op = "apiSpec.create" -> [cat EXCEPT !.apiSpecs = @ \cup {s.row}]
      [] s.op = "api.update" -> cat
      [] s.op = "apiRequest.deleteMany" -> [cat EXCEPT !.requests = DeleteMany(@, s.row.apiId)]
      [] s.op = "apiResponse.deleteMany" -> [cat EXCEPT !.responses = DeleteMany(@, s.row.apiId)]
      [] s.op = "variable.deleteMany" -> [cat EXCEPT !.variables = DeleteMany(@, s.row.apiId)]
      [] s.op = "api.create" -> [cat EXCEPT !.apis = @ \cup {s.row.apiId}]
      [] s.op = "apiRequest.create" -> [cat EXCEPT !.requests = @ \cup {s.row}]
      [] s.op = "apiResponse.create" -> [cat EXCEPT !.responses = @ \cup {s.row}]
      [] s.op = "variable.upsert" -> [cat EXCEPT !.variables = UpsertVariable(@, s.row)]

\* the tables after the statements of a transaction, in their order
RECURSIVE Replay(_, _)
Replay(cat, log) ==
    IF log = <<>> THEN cat ELSE Replay(Execute(cat, Head(log)), Tail(log))

\* ------------------------------------------------------------------------
\* processOpenParams, statement by statement: the other calls run between
\* its statements.
\*
\* The tables are the committed rows, which is what every other connection
\* reads (READ COMMITTED).  A call's own writes stay in its transaction until
\* the callback returns; they are the statements in `log`, applied to the
\* tables by the commit.  A row written by an open transaction blocks the
\* other writers of that row until the transaction ends; a writer that waits
\* for a row the commit deletes finds no row when it goes on.  The Api rows a
\* transaction has updated or created are in `held`; the Apis whose children
\* it has deleted are in `updated`.
\* ------------------------------------------------------------------------
Active(g) == ingests[g].pc # "idle"

\* mutant of InTransaction: every statement is committed as it is executed
WithoutTransaction(cat, written) == written

\* prisma.$transaction(async (tx) => ...): what the other connections see of
\* the tables `cat` after a statement of the callback has produced `written`
InTransaction(cat, written) == cat

\* what the call reports: the error it rejects with, the Apis it wrote
\* (results), whether it logged 'Duplicate Spec detected', and the Apis it
\* logged as 'Updated API'
IngestReturn(error, t) ==
    [op |-> "processOpenParams", error |-> error, written |-> t.done,
     duplicate |-> t.specFound, updated |-> t.updated]

\* the createDependency calls whose updateMany waits for rows that the
\* transaction of g holds
Waiting(g) ==
    {c \in Callers : calls[c].pc = "wait" /\ calls[c].targetApiId \in ingests[g].updated}

\* the statements of the calls C have been executed
Resumed(C) ==
    [c \in Callers |-> IF c \in C THEN [calls[c] EXCEPT !.pc = "resumed"] ELSE calls[c]]

\* the transaction is rolled back and the call rejects; the statements that
\* waited for its rows write them
IngestRollback(g, error) ==
    /\ ingests' = [ingests EXCEPT ![g] = IdleIngest]
    /\ ret' = IngestReturn(error, ingests[g])
    /\ variables' =
          {IF \E c \in Waiting(g) : v.apiId = calls[c].targetApiId /\ v.name = calls[c].key
           THEN [v EXCEPT !.varType = "dependent"] ELSE v : v \in variables}
    /\ calls' = Resumed(Waiting(g))
    /\ UNCHANGED <<apis, deps, catVars, candidates, projVars, analysis, runVars>>

\* the transaction of g has executed statement s and goes on as `next`
Executed(g, s, next) ==
    /\ ingests' = [ingests EXCEPT ![g] = [next EXCEPT !.log = Append(@, s)]]
    /\ SetCatalog(InTransaction(Catalog, Execute(Catalog, s)))
    /\ UNCHANGED <<deps, candidates, calls, analysis, projVars, runVars, ret>>

\* validate, version check, hash, then the transaction opens with findUnique
\* of the ApiSpec
IngestBegin(g, doc) ==
    /\ ingests[g].pc = "idle"
    /\ IF PreconditionError(doc) # "none"
       THEN /\ ret' = IngestReturn(PreconditionError(doc), IdleIngest)
            /\ UNCHANGED ingests
       ELSE /\ ingests' = [ingests EXCEPT ![g] =
                   [IdleIngest EXCEPT !.pc = "spec", !.doc = doc,
                                      !.specFound = SpecRow(doc) \in apiSpecs]]
            /\ UNCHANGED ret
    /\ UNCHANGED <<dbVars, calls, analysis, runVars>>

\* tx.apiSpec.create unless the row was found; the insert waits for an open
\* transaction that has inserted the same (projectId, specHash)
IngestSpec(g) ==
    LET t == ingests[g]
    IN /\ t.pc = "spec"
       /\ IF t.specFound
          THEN /\ ingests' = [ingests EXCEPT ![g].pc = "find", ![g].i = 1]
               /\ UNCHANGED <<dbVars, calls, analysis, runVars, ret>>
          ELSE IF SpecRow(t.doc) \in apiSpecs
          THEN IngestRollback(g, UniqueViolation)
          ELSE IF t.doc.projectId \notin projects
          THEN IngestRollback(g, ForeignKeyViolation)
          ELSE /\ \A h \in Ingesters \ {g} :
                     ~(ingests[h].specCreated /\ SpecRow(ingests[h].doc) = SpecRow(t.doc))
               /\ Executed(g, Statement("apiSpec.create", SpecRow(t.doc)),
                           [t EXCEPT !.pc = "find", !.i = 1, !.specCreated = TRUE])

\* tx.api.findUnique on (projectId, method, path)
IngestFind(g) ==
    LET t == ingests[g]
    IN /\ t.pc = "find"
       /\ ingests' = [ingests EXCEPT
                         ![g].pc = IF OperationsOf(t.doc)[t.i].apiId \in apis
                                   THEN "update" ELSE "create"]
       /\ UNCHANGED <<dbVars, calls, analysis, runVars, ret>>

\* the method loop goes on with the next operation, or the callback returns
NextOperation(t) ==
    [t EXCEPT !.pc = IF t.i = Len(OperationsOf(t.doc)) THEN "commit" ELSE "find",
              !.i = @ + 1, !.k = 0]

\* after the loop over operation.responses: the loop over allVariables
AfterResponses(t, o) ==
    IF VariableSeq(o) # <<>> THEN [t EXCEPT !.pc = "variable", !.k = 0] ELSE NextOperation(t)

\* after tx.apiRequest.create: the loop over operation.responses
AfterRequest(t, o) ==
    IF ResponseSeq(o) # <<>> THEN [t EXCEPT !.pc = "response", !.k = 0] ELSE AfterResponses(t, o)

\* JSON.stringify(responseSchema), the schema by itself
StringifiesAlone(schema) == schema \notin {"circular", "throwing"}

\* the path of an Api as the key of apiSpec.paths
RECURSIVE PathText(_)
PathText(segments) ==
    IF segments = <<>> THEN "" ELSE "/" \o Head(segments) \o PathText(Tail(segments))

\* what the callback throws for a response schema JSON.stringify rejects
NotSerializable(a, statusCode) ==
    "Schema not serializable for " \o MethodOf(a) \o " " \o PathText(PathOf(a))
    \o " " \o ToString(statusCode)

\* the next awaited statement of the iteration for operation i.
\*   update           tx.api.update({where: {id}}): throws when the row found
\*                    has been deleted since, waits while another transaction
\*                    holds the row
\*   deleteRequests, deleteResponses, deleteVariables
\*                    the three deleteMany, then 'Updated API' is logged
\*   create           tx.api.create: throws when the row has been created
\*                    since or the project has been deleted, waits while
\*                    another transaction has inserted the same key
\*   request          tx.apiRequest.create, after results.push
\*   response         tx.apiResponse.create, one per status code
\*   variable         tx.variable.upsert, one per variable
IngestStatement(g) ==
    LET t == ingests[g]
        o == OperationsOf(t.doc)[t.i]
        a == o.apiId
        Free == \A h \in Ingesters \ {g} : a \notin ingests[h].held
        Where == [apiId |-> a]
    IN CASE t.pc = "update" ->
               IF a \notin apis
               THEN IngestRollback(g, RecordNotFound)
               ELSE /\ Free
                    /\ Executed(g, Statement("api.update", Where),
                                [t EXCEPT !.pc = "deleteRequests", !.held = @ \cup {a}])
         [] t.pc = "deleteRequests" ->
               Executed(g, Statement("apiRequest.deleteMany", Where),
                        [t EXCEPT !.pc = "deleteResponses"])
         [] t.pc = "deleteResponses" ->
               Executed(g, Statement("apiResponse.deleteMany", Where),
                        [t EXCEPT !.pc = "deleteVariables"])
         [] t.pc = "deleteVariables" ->
               Executed(g, Statement("variable.deleteMany", Where),
                        [t EXCEPT !.pc = "request", !.updated = @ \cup {a},
                                  !.done = @ \cup {a}])
         [] t.pc = "create" ->
               IF a \in apis
               THEN IngestRollback(g, UniqueViolation)
               ELSE IF t.doc.projectId \notin projects
               THEN IngestRollback(g, ForeignKeyViolation)
               ELSE /\ Free
                    /\ Executed(g, Statement("api.create", Where),
                                [t EXCEPT !.pc = "request", !.held = @ \cup {a},
                                          !.done = @ \cup {a}])
         [] t.pc = "request" ->
               Executed(g, Statement("apiRequest.create", RequestRow(o)), AfterRequest(t, o))
         [] t.pc = "response" ->
               LET row == ResponseSeq(o)[t.k + 1]
               IN IF ~StringifiesAlone(row.schema)
                  THEN IngestRollback(g, NotSerializable(a, row.statusCode))
                  ELSE Executed(g, Statement("apiResponse.create", row),
                                IF t.k + 1 = Len(ResponseSeq(o))
                                THEN AfterResponses(t, o) ELSE [t EXCEPT !.k = @ + 1])
         [] t.pc = "variable" ->
               Executed(g, Statement("variable.upsert", VariableSeq(o)[t.k + 1]),
                        IF t.k + 1 = Len(VariableSeq(o))
                        THEN NextOperation(t) ELSE [t EXCEPT !.k = @ + 1])
         [] OTHER -> FALSE

\* mutant of IngestCommit: the commit makes the ApiSpec row visible and
\* loses the writes of the operations
IngestCommitSpecOnly(g) ==
    LET t == ingests[g]
    IN /\ t.pc = "commit"
       /\ SetCatalog(Replay(Catalog, SelectSeq(t.log, LAMBDA s : s.op = "apiSpec.create")))
       /\ ingests' = [ingests EXCEPT ![g] = IdleIngest]
       /\ ret' = IngestReturn("none", t)
       /\ calls' = Resumed(Waiting(g))
       /\ UNCHANGED <<deps, candidates, analysis, projVars, runVars>>

\* the callback returns: the transaction commits, its statements take effect
\* on the tables, and the call resolves; the statements that waited for rows
\* it deleted find none
IngestCommit(g) ==
    LET t == ingests[g]
    IN /\ t.pc = "commit"
       /\ SetCatalog(Replay(Catalog, t.log))
       /\ ingests' = [ingests EXCEPT ![g] = IdleIngest]
       /\ ret' = IngestReturn("none", t)
       /\ calls' = Resumed(Waiting(g))
       /\ UNCHANGED <<deps, candidates, analysis, projVars, runVars>>

\* the transaction outlives `timeout: 20000`: the next statement is rejected
IngestTimeout(g) ==
    /\ Active(g)
    /\ IngestRollback(g, TransactionTimeout)

\* ------------------------------------------------------------------------
\* Candidate analysis (analysis.service.ts, analyzeProjectVariables)
\* ------------------------------------------------------------------------
OpOf(a) == [method |-> MethodOf(a), path |-> PathOf(a)]
NoOp == [method |-> "none", path |-> <<>>]

\* consumers: the Apis with a Variable of varType 'user_input'
Consumers(A, V) == {a \in A : \E v \in V : v.apiId = a /\ v.varType = "user_input"}

\* authConsumers: a user_input Variable Authorization in the header
AuthConsumers(A, V) ==
    {a \in A : \E v \in V : /\ v.apiId = a /\ v.varType = "user_input"
                            /\ v.name = "Authorization" /\ v.location = "header"}

\* aiConsumers: a user_input Variable other than the Authorization header
AiConsumers(A, V) ==
    {a \in A : \E v \in V : /\ v.apiId = a /\ v.varType = "user_input"
                            /\ ~(v.name = "Authorization" /\ v.location = "header")}

\* tokenProducers: a response schema with a property accessToken
TokenProducers(A, R) == {a \in A : \E x \in R : x.apiId = a /\ x.schema = "token"}

Proposal(sid, sop, tid, top, m) ==
    [source_api_id |-> sid, source_op |-> sop, target_api_id |-> tid, target_op |-> top,
     mapping |-> m]

\* deterministicCandidates, consumer by consumer in the order of apis
DeterministicCandidates(apiSeq, V, R) ==
    LET A == Range(apiSeq)
        cs == SelectSeqBy(apiSeq, AuthConsumers(A, V))
        ps == SelectSeqBy(apiSeq, TokenProducers(A, R))
    IN [i \in 1..(Len(cs) * Len(ps)) |->
          LET c == cs[((i - 1) \div Len(ps)) + 1]
              p == ps[((i - 1) % Len(ps)) + 1]
          IN Proposal(p, OpOf(p), c, OpOf(c), AuthMapping)]

BATCH_SIZE == 3

\* consumerBatches.length: Math.ceil(arr.length / size)
BatchCount(n) == (n + BATCH_SIZE - 1) \div BATCH_SIZE

\* apis.find(a => a.id === id) || apis.find(a => a.method === .. && a.path === ..)
FindApi(A, id, op) ==
    IF id \in A THEN id
    ELSE IF \E a \in A : OpOf(a) = op THEN CHOOSE a \in A : OpOf(a) = op
    ELSE "none"

\* mutant of CandidateAccepted: without source.id === target.id
CandidateAcceptedResolved(source, target) == source # "none" /\ target # "none"

\* the negation of: if (!source || !target || source.id === target.id) continue
CandidateAccepted(source, target) == source # "none" /\ target # "none" /\ source # target

Min(x, y) == IF x < y THEN x ELSE y

\* mapping values that contain 'id' once in lower case
UsesId(m) == \E v \in Values(m) : v \in {"id", "orderId"}

\* source.path contains one of the lifecycle keywords
IsLifecycle(path) ==
    \E i \in 1..Len(path) :
       path[i] \in {"history", "status", "balance", "cancel", "pay", "payments"}

\* mutant of Confidence: without the lifecycle cap
ConfidenceWithoutLifecycle(source, target, m, R) ==
    LET targetHasId == \E i \in 1..Len(PathOf(target)) : PathOf(target)[i] = "{id}"
        isCreate == MethodOf(source) = "POST" /\ \A i \in 1..Len(PathOf(source)) : PathOf(source)[i] # "{id}"
        isGet == MethodOf(source) = "GET"
        returnsList == \E x \in R : x.apiId = source /\ x.schema = "array"
        c1 == IF UsesId(m) \/ targetHasId THEN Min(100, 60) ELSE 100
        c3 == IF ~isCreate THEN Min(c1, 60) ELSE c1
        c4 == IF isGet /\ returnsList THEN Min(c3, 70) ELSE c3
    IN Min(c4, 80)

\* the calibrated confidence, in hundredths
Confidence(source, target, m, R) ==
    LET targetHasId == \E i \in 1..Len(PathOf(target)) : PathOf(target)[i] = "{id}"
        isCreate == MethodOf(source) = "POST" /\ \A i \in 1..Len(PathOf(source)) : PathOf(source)[i] # "{id}"
        isGet == MethodOf(source) = "GET"
        returnsList == \E x \in R : x.apiId = source /\ x.schema = "array"
        c1 == IF UsesId(m) \/ targetHasId THEN Min(100, 60) ELSE 100
        c2 == IF IsLifecycle(PathOf(source)) THEN Min(c1, 50) ELSE c1
        c3 == IF ~isCreate THEN Min(c2, 60) ELSE c2
        c4 == IF isGet /\ returnsList THEN Min(c3, 70) ELSE c3
    IN Min(c4, 80)

CandidateRow(source, target, m, R) ==
    [sourceApiId |-> source, targetApiId |-> target, mapping |-> m,
     confidence |-> Confidence(source, target, m, R)]

\* the rows the loop over candidates creates, in order
RECURSIVE RowsToCreate(_, _, _)
RowsToCreate(cands, A, R) ==
    IF cands = <<>> THEN <<>>
    ELSE LET c == Head(cands)
             source == FindApi(A, c.source_api_id, c.source_op)
             target == FindApi(A, c.target_api_id, c.target_op)
         IN (IF CandidateAccepted(source, target)
             THEN <<CandidateRow(source, target, c.mapping, R)>> ELSE <<>>)
            \o RowsToCreate(Tail(cands), A, R)

\* the candidates whose resolved source is their resolved target
SelfProposals(cands, A) ==
    {i \in 1..Len(cands) :
        LET source == FindApi(A, cands[i].source_api_id, cands[i].source_op)
        IN source # "none" /\ source = FindApi(A, cands[i].target_api_id, cands[i].target_op)}

\* What the LLM can answer for a batch: proposals by id, by (method, path), for
\* an Api of another project, for itself, for nothing that exists.
LlmById == Proposal("a1", OpOf("a1"), "a2", OpOf("a2"), IdMapping)
LlmSelfById == Proposal("a2", NoOp, "a2", NoOp, IdMapping)
LlmSelfByOp == Proposal("x1", OpOf("a2"), "x2", OpOf("a2"), IdMapping)
LlmForeignId == Proposal("b1", OpOf("b1"), "a2", OpOf("a2"), IdMapping)
LlmUnknown == Proposal("x1", NoOp, "x2", NoOp, IdMapping)

\* proposals for a variable the target does not declare, from a lifecycle
\* source, from a list source and from a create source
LlmRandomField == Proposal("a1", OpOf("a1"), "a2", OpOf("a2"), RandomFieldMapping)
LlmPay == Proposal("a6", OpOf("a6"), "a4", OpOf("a4"), StatusMapping)
LlmList == Proposal("a4", OpOf("a4"), "a2", OpOf("a2"), IdMapping)
LlmCreate == Proposal("a1", OpOf("a1"), "a4", OpOf("a4"), StatusMapping)

LlmReplies ==
    {<<>>, <<LlmById>>, <<LlmSelfById>>, <<LlmSelfByOp>>, <<LlmForeignId>>, <<LlmUnknown>>,
     <<LlmSelfByOp, LlmById>>, <<LlmForeignId, LlmSelfById>>}

\* what the call reports: its return value, and the batches it logged as sent
\* and as failed
AnalysisReturn(p, success, saved) ==
    ret' = [op |-> "analyzeProjectVariables", projectId |-> p, success |-> success,
            candidates |-> saved,
            batches |-> analysis.batches, sent |-> analysis.sent, failed |-> analysis.failed]

\* analyzeProjectVariables up to the batch loop: the reads, the early returns
\* and the deterministic candidates
AnalyzeProjectVariables(p) ==
    LET A == ApisOfProject(apis, p)
        batches == BatchCount(Cardinality(AiConsumers(A, variables)))
    IN /\ analysis.pc = "idle"
       /\ IF A = {}
          THEN /\ AnalysisReturn(p, FALSE, 0)
               /\ UNCHANGED analysis
          ELSE IF Consumers(A, variables) = {}
          THEN /\ AnalysisReturn(p, TRUE, 0)
               /\ UNCHANGED analysis
          ELSE /\ \E all \in {DeterministicCandidates(apiSeq, variables, responses) :
                                  apiSeq \in Orders(A)} :
                    analysis' = [IdleAnalysis EXCEPT
                                   !.pc = IF batches = 0 THEN "delete" ELSE "batch",
                                   !.projectId = p,
                                   !.apis = A,
                                   !.responses = {x \in responses : x.apiId \in A},
                                   !.all = all,
                                   !.batches = batches]
               /\ UNCHANGED ret
       /\ UNCHANGED <<dbVars, calls, ingests, runVars>>

\* the loop goes on to the next batch, or leaves after the last one
NextBatch(t) ==
    [t EXCEPT !.sent = @ + 1, !.pc = IF t.sent + 1 = t.batches THEN "delete" ELSE "batch"]

\* mutant of AfterFailedBatch: the loop is left at the first failure
AfterFailedBatchBreak(t) ==
    [t EXCEPT !.sent = t.batches, !.pc = "delete", !.failed = @ \cup {t.sent + 1}]

\* catch (error) { logger.error(`Batch ${i + 1} Failed`, ...) }
AfterFailedBatch(t) ==
    NextBatch([t EXCEPT !.failed = @ \cup {t.sent + 1}])

\* one batch whose reply parses: allCandidates = [...allCandidates, ...batchResult]
AnalyzeBatch(llm) ==
    /\ analysis.pc = "batch"
    /\ analysis' = NextBatch([analysis EXCEPT !.all = @ \o llm])
    /\ UNCHANGED <<dbVars, calls, ingests, runVars, ret>>

\* one batch whose axios.post or JSON.parse throws
AnalyzeBatchFailed ==
    /\ analysis.pc = "batch"
    /\ analysis' = AfterFailedBatch(analysis)
    /\ UNCHANGED <<dbVars, calls, ingests, runVars, ret>>

\* the rows of a table whose source Api belongs to the project
OfProject(B, p) ==
    LET keep == {x \in BagToSet(B) : ProjectOf(x.sourceApiId) = p}
    IN [x \in keep |-> B[x]]

\* dependencyCandidate.deleteMany({where: {sourceApi: {projectId}}})
WithoutProject(B, p) ==
    LET keep == {x \in BagToSet(B) : ProjectOf(x.sourceApiId) # p}
    IN [x \in keep |-> B[x]]

AnalyzeDeleteMany ==
    LET A == analysis.apis
        rows == RowsToCreate(analysis.all, A, analysis.responses)
    IN /\ analysis.pc = "delete"
       /\ candidates' = WithoutProject(candidates, analysis.projectId)
       /\ IF rows = <<>>
          THEN /\ AnalysisReturn(analysis.projectId, TRUE, 0)
               /\ analysis' = IdleAnalysis
          ELSE /\ analysis' = [analysis EXCEPT
                                 !.pc = "create",
                                 !.previous = OfProject(candidates, analysis.projectId),
                                 !.rows = rows,
                                 !.pending = rows,
                                 !.skippedSelf = Cardinality(SelfProposals(analysis.all, A))]
               /\ UNCHANGED ret
       /\ UNCHANGED <<apis, variables, deps, catVars, calls, ingests, projVars, runVars>>

\* one dependencyCandidate.create of the loop; the call returns after the last
AnalyzeCreate ==
    /\ analysis.pc = "create"
    /\ candidates' = candidates (+) SetToBag({Head(analysis.pending)})
    /\ IF Len(analysis.pending) = 1
       THEN /\ AnalysisReturn(analysis.projectId, TRUE, analysis.saved + 1)
            /\ analysis' = IdleAnalysis
       ELSE /\ analysis' = [analysis EXCEPT !.pending = Tail(@), !.saved = @ + 1]
            /\ UNCHANGED ret
    /\ UNCHANGED <<apis, variables, deps, catVars, calls, ingests, projVars, runVars>>

\* getCandidates: findMany({where: {sourceApi: {projectId}}})
GetCandidates(p) ==
    /\ ret' = [op |-> "getCandidates", projectId |-> p, rows |-> OfProject(candidates, p)]
    /\ UNCHANGED <<dbVars, procVars, runVars>>

\* ------------------------------------------------------------------------
\* Project deletion (project service, deleteProject) over the foreign keys of
\* the migration.
\* ------------------------------------------------------------------------
\* prisma.api.findMany({where: {projectId}, select: {id: true}})
ProjectApis(A, p) == {a \in A : ProjectOf(a) = p}

\* mutant of ReferencesApis: the foreign key of the source only
ReferencesApisAsSource(row, gone) == row.sourceApiId \in gone

\* a row of api_dependencies or dependency_candidates that a delete of the
\* Apis `gone` cascades to: source_api_id or target_api_id ON DELETE CASCADE
ReferencesApis(row, gone) == row.sourceApiId \in gone \/ row.targetApiId \in gone

WithoutApis(B, gone) ==
    LET keep == {x \in BagToSet(B) : ~ReferencesApis(x, gone)}
    IN [x \in keep |-> B[x]]

\* test_executions.api_id ON DELETE SET NULL
ExecutionsWithoutApis(E, gone) ==
    {IF e.apiId \in gone THEN [e EXCEPT !.apiId = "null"] ELSE e : e \in E}

\* test_runs.project_id ON DELETE SET NULL
RunsWithoutProject(T, p) ==
    {IF r.projectId = p THEN [r EXCEPT !.projectId = "null"] ELSE r : r \in T}

\* deleteProject, step 1: the ids of the project's Apis are read
DeleteProjectFind(p) ==
    /\ deletion.pc = "idle"
    /\ deletion' = [pc |-> "transaction", projectId |-> p, apiIds |-> ProjectApis(apis, p)]
    /\ UNCHANGED <<apis, variables, deps, catVars, candidates, projects, issued, testRuns,
                   procVars, runVars, ret>>

\* the open transaction of g holds rows that deleteProject(p) writes: the
\* ApiSpec or an Api it created refers to the Project row, an Api it updated
\* is a row of api.deleteMany
HoldsRowsOf(g, p) ==
    ingests[g].doc.projectId = p /\ (ingests[g].specCreated \/ ingests[g].held # {})

\* deleteProject, step 2: prisma.$transaction([variable.deleteMany,
\* api.deleteMany, project.delete]) with the cascades of the three deletes;
\* project.delete of a missing row throws and the batch is rolled back.  The
\* batch waits for the rows an open transaction of processOpenParams holds
DeleteProjectTransaction ==
    LET p == deletion.projectId
        gone == ProjectApis(apis, p)
    IN /\ deletion.pc = "transaction"
       /\ \A g \in Ingesters : ~HoldsRowsOf(g, p)
       /\ deletion' = IdleDeletion
       /\ IF p \notin projects
          THEN /\ ret' = [op |-> "deleteProject", error |-> RecordNotFound, projectId |-> p]
               /\ UNCHANGED <<apis, variables, deps, catVars, candidates, projects, testRuns,
                              executions>>
          ELSE /\ variables' = {v \in variables : v.apiId \notin deletion.apiIds \cup gone}
               /\ apis' = apis \ gone
               /\ requests' = {x \in requests : x.apiId \notin gone}
               /\ responses' = {x \in responses : x.apiId \notin gone}
               /\ deps' = {d \in deps : ~ReferencesApis(d, gone)}
               /\ candidates' = WithoutApis(candidates, gone)
               /\ executions' = ExecutionsWithoutApis(executions, gone)
               /\ apiSpecs' = {x \in apiSpecs : x.projectId # p}
               /\ testRuns' = RunsWithoutProject(testRuns, p)
               /\ projects' = projects \ {p}
               /\ ret' = [op |-> "deleteProject", error |-> "none", projectId |-> p]
       /\ UNCHANGED <<issued, procVars, testRun, artifacts, run, tasks, context, httpCalls,
                      planner>>

\* what a statement is rejected with when the database ends a deadlock
WriteConflict == "P2034: Transaction failed due to a write conflict or a deadlock"

\* the batch of deleteProject waits at its first statement, variable.deleteMany,
\* for Variables that the transaction of g has deleted
WaitsForVariables(g) ==
    \E v \in variables : v.apiId \in ingests[g].updated \cap deletion.apiIds

\* processOpenParams and deleteProject wait for each other: the batch waits
\* for a row the transaction of g holds, and the next statement of g is for a
\* row the batch has deleted: the Api, by api.deleteMany, unless the batch
\* still waits at its first statement, or the Variables of the Api
Deadlocked(g) ==
    LET t == ingests[g]
        a == OperationsOf(t.doc)[t.i].apiId
    IN /\ deletion.pc = "transaction" /\ deletion.projectId = t.doc.projectId
       /\ HoldsRowsOf(g, t.doc.projectId)
       /\ \/ t.pc = "update" /\ a \in apis /\ ~WaitsForVariables(g)
          \/ /\ t.pc = "deleteVariables" /\ a \in deletion.apiIds
             /\ \E v \in variables : v.apiId = a

\* the database ends the deadlock by rejecting the statement of processOpenParams
IngestDeadlock(g) == Deadlocked(g) /\ IngestRollback(g, WriteConflict)

\* the database ends the deadlock by rejecting the statement of deleteProject
DeleteProjectDeadlock ==
    /\ \E g \in Ingesters : Deadlocked(g)
    /\ deletion' = IdleDeletion
    /\ ret' = [op |-> "deleteProject", error |-> WriteConflict, projectId |-> deletion.projectId]
    /\ UNCHANGED <<apis, variables, deps, catVars, candidates, projects, issued, testRuns,
                   procVars, runVars>>

\* users: the rows of the table (no handler writes it), and the user ids the
\* callers pass
Users == {"u1"}
UserIds == Users \cup {"u0"}

\* the ids createProject gives to its Project rows, each once: first p3, then
\* p4; a call that would need a third id is not made
NewProjects == {"p3", "p4"}

NewProjectId == IF issued = {} THEN "p3" ELSE "p4"

\* projects.name: the names of the two projects of the catalog universe, and
\* the names the callers of createProject pass (one taken, one new)
ProjectNames == {"shop", "new"}

NameOf(p) ==
    IF p = "p1" THEN "shop" ELSE IF p = "p2" THEN "bank"
    ELSE (CHOOSE x \in issued : x[1] = p)[2]

\* createProject(userId, name): prisma.project.create inserts a row with a new
\* id.  The unique index projects_name_key rejects a name that a Project row
\* has, as the row is inserted; projects_user_id_fkey rejects a user that
\* does not exist, when the statement ends
CreateProject(userId, name) ==
    /\ IF name \in {NameOf(p) : p \in projects}
       THEN /\ ret' = [op |-> "createProject", error |-> UniqueViolation, projectId |-> "none"]
            /\ UNCHANGED <<projects, issued>>
       ELSE IF userId \notin Users
       THEN /\ ret' = [op |-> "createProject", error |-> ForeignKeyViolation, projectId |-> "none"]
            /\ UNCHANGED <<projects, issued>>
       ELSE /\ NewProjectId \notin {x[1] : x \in issued}
            /\ projects' = projects \cup {NewProjectId}
            /\ issued' = issued \cup {<<NewProjectId, name>>}
            /\ ret' = [op |-> "createProject", error |-> "none", projectId |-> NewProjectId]
    /\ UNCHANGED <<apis, variables, deps, catVars, candidates, testRuns, deletion, procVars,
                   runVars>>

\* ------------------------------------------------------------------------
\* SpecPlan: the registry and the planner, concurrently.  The catalog holds the
\* Apis of both projects (their documents were ingested); the planner reads
\* neither the mapping nor isRequired, so createDependency is called with one
\* value of each.  The pairs give every shape of edge: a chain, a cycle, edges
\* out of a project and an edge into it.
\* ------------------------------------------------------------------------
DependencyPairs ==
    {<<"a1", "a2">>, <<"a2", "a3">>, <<"a2", "a1">>, <<"a3", "b1">>, <<"a3", "b2">>,
     <<"b1", "a1">>}

CatalogVariables ==
    {[apiId |-> a, name |-> "id", location |-> "path", varType |-> "user_input"] : a \in ApiIds}

InitPlan ==
    /\ apis = ApiIds
    /\ variables = CatalogVariables
    /\ deps = {}
    /\ ret = NoCall
    /\ InitCatalogRest
    /\ InitNoRun

\* a createDependency that adds a row is called while fewer than MaxDeps exist
NextPlan ==
    \/ \E e \in DependencyPairs \cup {<<"a1", "a1">>} :
          /\ DepsOfPair(deps, e[1], e[2]) # {} \/ Cardinality(deps) < MaxDeps
          /\ CreateDependencyCall("c1", e[1], e[2], NoMapping, TRUE)
    \/ \E d \in deps \cup {NoDependency} : DeleteDependency(d)
    \/ \E p \in Projects : BuildExecutionGraphDependencies(p)
    \/ BuildExecutionGraph

SpecPlan == InitPlan /\ [][NextPlan]_vars

\* ------------------------------------------------------------------------
\* SpecRun: one executeRun, task by task, while the registry, an ingest,
\* createProject and deleteProject are called.  The catalog starts with
\* dependencies that were confirmed before the run (each by createDependency
\* with the mapping {id: id}): one edge, a chain, a chain with a fan-in, a
\* cycle beside edges out of the project, or an edge into the project; the
\* second project has none.  The calls made during the run are for the first
\* pair, the first project and a document of it; one of them is made, at any
\* point of the run or before it, and runs statement by statement beside the
\* run.  A second executeRun would read the same tables and write the rows of
\* its own TestRun only.
\* ------------------------------------------------------------------------
RunPairSets ==
    {{<<"a1", "a2">>},
     {<<"a1", "a2">>, <<"a2", "a3">>},
     {<<"a1", "a2">>, <<"a2", "a3">>, <<"a1", "a3">>},
     {<<"a1", "a2">>, <<"a2", "a1">>, <<"a3", "b1">>, <<"a3", "b2">>},
     {<<"a3", "b1">>}}

RunDepSets == {{DepRow(e[1], e[2], IdMapping, TRUE) : e \in S} : S \in RunPairSets}

\* a document of the first project that declares GET /orders/{id} as
\* InitCatalogRest holds it, and nothing else
DocTarget ==
    [projectId |-> "p1", valid |-> TRUE, openapi |-> "3.0.3", specHash |-> "target",
     operations |-> {Operation("a2", {<<"id", "path", "user_input">>}, {<<200, "object">>})}]

\* the Variable rows after createDependency was called for each row of D
VariablesAfter(D) ==
    {IF \E d \in D : d.targetApiId = v.apiId /\ v.name \in Keys(d.mapping)
     THEN [v EXCEPT !.varType = "dependent"] ELSE v : v \in CatalogVariables}

\* the createDependency calls made during the run
RunCalls == {<<"a1", "a2", IdMapping, TRUE>>}

\* no other call has been made
NoOtherCall ==
    /\ ret = NoCall
    /\ calls["c1"].pc = "idle" /\ deletion.pc = "idle" /\ ingests["i1"].pc = "idle"

InitRun ==
    /\ apis = ApiIds
    /\ deps \in RunDepSets
    /\ variables = VariablesAfter(deps)
    /\ ret = NoCall
    /\ InitCatalogRest
    /\ InitNoRun

NextRun ==
    \/ \E p \in Projects : RunCreate(p)
    \/ RunPlanDependencies
    \/ RunPlan
    \/ \E a \in ApiIds : TaskCreateExecution(a)
    \/ \E a \in ApiIds : TaskFetchApi(a)
    \/ \E a \in ApiIds : TaskResolveAndSend(a)
    \/ \E a \in ApiIds, resp \in HttpResponses : TaskResponse(a, resp)
    \/ \E a \in ApiIds : TaskTransportError(a)
    \/ \E a \in ApiIds : TaskSaveArtifact(a)
    \/ \E a \in ApiIds : TaskUpdateStatus(a)
    \/ \E a \in ApiIds : TaskCatch(a)
    \/ RunAdvance
    \/ RunComplete
    \/ \E x \in RunCalls : NoOtherCall /\ CreateDependencyCall("c1", x[1], x[2], x[3], x[4])
    \/ CreateDependencyMark("c1")
    \/ \E d \in {DepRow(x[1], x[2], x[3], x[4]) : x \in RunCalls} \cup {NoDependency} :
          NoOtherCall /\ DeleteDependency(d)
    \/ NoOtherCall /\ DeleteProjectFind("p1")
    \/ DeleteProjectTransaction
    \/ NoOtherCall /\ IngestBegin("i1", DocTarget)
    \/ IngestSpec("i1")
    \/ IngestFind("i1")
    \/ IngestStatement("i1")
    \/ IngestCommit("i1")
    \/ IngestTimeout("i1")
    \/ \E u \in UserIds, n \in ProjectNames : NoOtherCall /\ CreateProject(u, n)

SpecRun == InitRun /\ [][NextRun]_vars

\* ------------------------------------------------------------------------
\* Spec: ingest and the registry, call by call and statement by statement, over
\* a catalog that starts empty.  Two callers, for one pair of Apis with two
\* different mappings, and for an Api with itself; one caller of
\* processOpenParams, and createProject.
\* ------------------------------------------------------------------------
RegistryCalls ==
    {<<"a1", "a2", IdMapping, TRUE>>, <<"a1", "a2", AuthMapping, FALSE>>,
     <<"a2", "a2", IdMapping, TRUE>>}

InitEmpty ==
    /\ apis = {}
    /\ variables = {}
    /\ deps = {}
    /\ apiSpecs = {}
    /\ requests = {}
    /\ responses = {}
    /\ candidates = EmptyBag
    /\ InitNoProcess
    /\ InitProjects
    /\ ret = NoCall
    /\ InitNoRun

Init == InitEmpty

Next ==
    \/ \E doc \in RegistryDocuments : IngestBegin("i1", doc)
    \/ IngestSpec("i1")
    \/ IngestFind("i1")
    \/ IngestStatement("i1")
    \/ IngestCommit("i1")
    \/ IngestTimeout("i1")
    \/ \E u \in UserIds, n \in ProjectNames : CreateProject(u, n)
    \/ \E c \in Callers, a \in RegistryCalls : CreateDependencyCall(c, a[1], a[2], a[3], a[4])
    \/ \E c \in Callers, a \in RegistryCalls : CreateDependencyFind(c, a[1], a[2], a[3], a[4])
    \/ \E c \in Callers : CreateDependencyWrite(c)
    \/ \E c \in Callers : CreateDependencyMark(c)
    \/ \E d \in deps \cup {NoDependency} : DeleteDependency(d)

Spec == Init /\ [][Next]_vars

\* ------------------------------------------------------------------------
\* SpecIngest: two concurrent callers of processOpenParams, statement by
\* statement, over a catalog that starts empty.
\* ------------------------------------------------------------------------
InitIngest == InitEmpty

NextIngest ==
    \/ \E g \in Ingesters, doc \in IngestDocuments : IngestBegin(g, doc)
    \/ \E g \in Ingesters : IngestSpec(g)
    \/ \E g \in Ingesters : IngestFind(g)
    \/ \E g \in Ingesters : IngestStatement(g)
    \/ \E g \in Ingesters : IngestCommit(g)
    \/ \E g \in Ingesters : IngestTimeout(g)

SpecIngest == InitIngest /\ [][NextIngest]_vars

\* ------------------------------------------------------------------------
\* SpecAnalysis: one caller each of processOpenParams, of createDependency
\* and of the analysis, statement by statement, over a catalog that starts
\* empty.
\* ------------------------------------------------------------------------
AnalysisCalls ==
    {<<"a1", "a2", IdMapping, TRUE>>, <<"a2", "a2", IdMapping, TRUE>>,
     <<"a1", "a3", AuthMapping, TRUE>>}

InitAnalysis == InitEmpty

NextAnalysis ==
    \/ \E doc \in Documents : IngestBegin("i1", doc)
    \/ IngestSpec("i1")
    \/ IngestFind("i1")
    \/ IngestStatement("i1")
    \/ IngestCommit("i1")
    \/ IngestTimeout("i1")
    \/ \E a \in AnalysisCalls : CreateDependencyCall("c1", a[1], a[2], a[3], a[4])
    \/ CreateDependencyMark("c1")
    \/ \E p \in Projects : AnalyzeProjectVariables(p)
    \/ \E llm \in LlmReplies : AnalyzeBatch(llm)
    \/ AnalyzeBatchFailed
    \/ AnalyzeDeleteMany
    \/ AnalyzeCreate

SpecAnalysis == InitAnalysis /\ [][NextAnalysis]_vars

\* ------------------------------------------------------------------------
\* SpecCandidates: the candidate analysis batch by batch and row by row, and
\* a reader of the candidates, over a catalog that starts empty and is
\* ingested once (processOpenParams is called while no ApiSpec is stored).
\* ------------------------------------------------------------------------
CandidateReplies == {<<LlmRandomField>>, <<LlmPay, LlmCreate>>, <<LlmList>>}

InitCandidates == InitEmpty

NextCandidates ==
    \/ apiSpecs = {} /\ \E doc \in AnalysisDocuments : IngestBegin("i1", doc)
    \/ IngestSpec("i1")
    \/ IngestFind("i1")
    \/ IngestStatement("i1")
    \/ IngestCommit("i1")
    \/ IngestTimeout("i1")
    \/ \E p \in Projects : AnalyzeProjectVariables(p)
    \/ \E llm \in CandidateReplies : AnalyzeBatch(llm)
    \/ AnalyzeBatchFailed
    \/ AnalyzeDeleteMany
    \/ AnalyzeCreate
    \/ \E p \in Projects : GetCandidates(p)

SpecCandidates == InitCandidates /\ [][NextCandidates]_vars

\* ------------------------------------------------------------------------
\* SpecProject: deleteProject, createProject and a re-ingest of the first
\* project, statement by statement, over stores that hold both projects:
\* their catalogs, dependencies within and across the projects, candidates,
\* and recorded runs with their executions and artifacts.
\* ------------------------------------------------------------------------
ProjectDeps ==
    {DepRow("a1", "a2", IdMapping, TRUE), DepRow("b1", "a2", IdMapping, TRUE),
     DepRow("a1", "b2", IdMapping, TRUE), DepRow("b1", "b2", IdMapping, TRUE)}

ProjectCandidates ==
    {CandidateRow("a1", "a2", IdMapping, {}), CandidateRow("b1", "b2", IdMapping, {})}

ProjectRuns == {[id |-> "r1", projectId |-> "p1"], [id |-> "r2", projectId |-> "p2"]}

\* the TestExecution rows of the recorded runs (test_run_id is NOT NULL and
\* refers to a TestRun), and their ExecutionArtifact rows
ProjectExecutions ==
    {[id |-> "a1", testRunId |-> "r1", apiId |-> "a1", status |-> "PASSED",
      errorMessage |-> "none"],
     [id |-> "b1", testRunId |-> "r2", apiId |-> "b1", status |-> "PASSED",
      errorMessage |-> "none"]}

ProjectArtifacts == {"a1", "b1"}

\* what earlier runs have left: nothing, runs that created no execution, or
\* the runs with their executions and artifacts
ProjectHistories ==
    {[testRuns |-> {}, executions |-> {}, artifacts |-> {}],
     [testRuns |-> ProjectRuns, executions |-> {}, artifacts |-> {}],
     [testRuns |-> ProjectRuns, executions |-> ProjectExecutions,
      artifacts |-> ProjectArtifacts]}

InitProject ==
    /\ apis = ApiIds
    /\ variables = CatalogVariables
    /\ apiSpecs = {[projectId |-> p, specHash |-> "orders"] : p \in Projects}
    /\ requests = {[apiId |-> a, bodySchema |-> NoSchema] : a \in ApiIds}
    /\ responses = {[apiId |-> a, statusCode |-> 200, schema |-> "object"] : a \in ApiIds}
    /\ deps \in {{}, ProjectDeps}
    /\ \E C \in {{}, ProjectCandidates} : candidates = SetToBag(C)
    /\ projects = Projects
    /\ issued = {}
    /\ \E h \in ProjectHistories :
          /\ testRuns = h.testRuns
          /\ executions = h.executions
          /\ artifacts = h.artifacts
    /\ InitNoProcess
    /\ ret = NoCall
    /\ testRun = "none"
    /\ run = NoRun
    /\ tasks = [a \in ApiIds |-> NoTask]
    /\ context = {}
    /\ httpCalls = {}
    /\ planner = NoPlanner

NextProject ==
    \/ \E p \in Projects \cup NewProjects : DeleteProjectFind(p)
    \/ DeleteProjectTransaction
    \/ \E u \in UserIds, n \in ProjectNames : CreateProject(u, n)
    \/ IngestBegin("i1", DocSecured)
    \/ IngestSpec("i1")
    \/ IngestFind("i1")
    \/ IngestStatement("i1")
    \/ IngestCommit("i1")
    \/ IngestTimeout("i1")
    \/ IngestDeadlock("i1")
    \/ DeleteProjectDeadlock

SpecProject == InitProject /\ [][NextProject]_vars

\* ------------------------------------------------------------------------
\* SpecBody: processOpenParams of a document with a request body, statement by
\* statement, into an empty catalog and again into the catalog it has left,
\* for every order of its content types.
\* ------------------------------------------------------------------------
InitBody == InitEmpty

NextBody ==
    \/ \E doc \in BodyDocuments : apiSpecs \subseteq {SpecRow(doc)} /\ IngestBegin("i1", doc)
    \/ IngestSpec("i1")
    \/ IngestFind("i1")
    \/ IngestStatement("i1")
    \/ IngestCommit("i1")
    \/ IngestTimeout("i1")

SpecBody == InitBody /\ [][NextBody]_vars

\* ------------------------------------------------------------------------
\* Properties of the planner (checked under SpecPlan).  Every registry call
\* replaces ret, so while ret holds a planner result, deps is what it read.
\* ------------------------------------------------------------------------
PlanReturned == ret.op = "buildExecutionGraph" /\ ret.error = "none"
PlanThrew == ret.op = "buildExecutionGraph" /\ ret.error = CycleError

\* the index of the level that holds a (0 when none does)
LevelOf(a, levels) ==
    IF \E i \in 1..Len(levels) : a \in Range(levels[i])
    THEN CHOOSE i \in 1..Len(levels) : a \in Range(levels[i])
    ELSE 0

\* the nodes reachable from S along the edges of E
RECURSIVE ReachableFrom(_, _)
ReachableFrom(E, S) ==
    LET N == S \cup {d.targetApiId : d \in {e \in E : e.sourceApiId \in S}}
    IN IF N = S THEN S ELSE ReachableFrom(E, N)

HasCycle(E) == \E d \in E : d.sourceApiId \in ReachableFrom(E, {d.targetApiId})

\* the dependency edges between Apis of project p
EdgesInside(D, p) == {d \in D : ProjectOf(d.sourceApiId) = p /\ ProjectOf(d.targetApiId) = p}

\* C1: whenever buildExecutionGraph returns for a project, every dependency edge
\* u -> v between Apis of that project has u strictly before v in sortedOrder
\* and u in a strictly earlier level than v.
C1_EdgesOrdered ==
    PlanReturned =>
        \A d \in EdgesInside(deps, ret.projectId) :
            /\ PosIn(d.sourceApiId, ret.sortedOrder) > 0
            /\ PosIn(d.sourceApiId, ret.sortedOrder) < PosIn(d.targetApiId, ret.sortedOrder)
            /\ LevelOf(d.sourceApiId, ret.executionLevels) > 0
            /\ LevelOf(d.sourceApiId, ret.executionLevels)
                  < LevelOf(d.targetApiId, ret.executionLevels)

\* C2: whenever the dependency edges of the project contain a directed cycle,
\* buildExecutionGraph fails with the cycle error (and returns no order, no levels).
C2_CycleRejected ==
    (ret.op = "buildExecutionGraph" /\ HasCycle(EdgesInside(deps, ret.projectId)))
        => (ret.error = CycleError /\ ret.sortedOrder = <<>> /\ ret.executionLevels = <<>>)

\* ------------------------------------------------------------------------
\* Properties of the run executor (checked under SpecRun)
\* ------------------------------------------------------------------------
\* the TestExecution row the task of a created
RowsOf(a) == {e \in executions : e.id = a}

\* the row of a is the one row its task created, with this status and message
RowIs(a, status, msg) ==
    \E e \in executions : RowsOf(a) = {e} /\ e.status = status /\ e.errorMessage = msg

\* the task of a was started (its row is being created or exists)
Started(a) == tasks[a].pc # "none" \/ RowsOf(a) # {}

\* the endpoint of a answered
GotResponse(a) == tasks[a].response # NoResponse

\* C3: no endpoint of layer k+1 is started until every endpoint of layer k has
\* settled, and then the context holds the entry of every layer-k endpoint that
\* received an HTTP response.
C3_Barrier ==
    \A k \in 1..(Len(run.executionLevels) - 1) :
        \A b \in Range(run.executionLevels[k + 1]) :
            Started(b) =>
                \A a \in Range(run.executionLevels[k]) :
                    /\ tasks[a].pc = "done"
                    /\ GotResponse(a) =>
                          \E e \in context : e.apiId = a /\ e.status = tasks[a].response.status

\* a second-layer endpoint was called after a first layer of two or more
\* concurrent endpoints, one of which got a response
C3_Witness ==
    /\ Len(run.executionLevels) >= 2
    /\ Len(run.executionLevels[1]) >= 2
    /\ \E b \in Range(run.executionLevels[2]) : tasks[b].pc = "inflight"
    /\ \E a \in Range(run.executionLevels[1]) : tasks[a].response.status = 200

\* the claim's condition on a source: no context entry, or a recorded status >= 300
NotReady(ctx, src) == ~(\E e \in ctx : e.apiId = src /\ e.status < 300)

\* the task of b resolves its inputs in this step
Resolves(b) == tasks[b].pc = "fetched" /\ tasks'[b].pc # "fetched"

\* the first dependency, in the order they were fetched, whose source is not ready
FirstNotReady(depSeq, ctx) ==
    CHOOSE i \in 1..Len(depSeq) :
        /\ NotReady(ctx, depSeq[i].sourceApiId)
        /\ \A j \in 1..(i - 1) : ~NotReady(ctx, depSeq[j].sourceApiId)

\* the dependencies before the i-th that read a value out of a null response body
NullBodyBefore(depSeq, ctx, i) ==
    {j \in 1..(i - 1) :
        /\ depSeq[j].mapping # {}
        /\ \E e \in ctx : e.apiId = depSeq[j].sourceApiId /\ e.response = "null"}

\* C4 as claimed: for every dependency A -> B, if A is not ready when B resolves
\* its inputs, B issues no HTTP call and fails with the message that names A.
C4_EveryFailedSourceNamed ==
    [][\A b \in ApiIds :
          Resolves(b) =>
              \A i \in 1..Len(tasks[b].targetDependencies) :
                  NotReady(context, tasks[b].targetDependencies[i].sourceApiId) =>
                      /\ tasks'[b].pc = "failing"
                      /\ b \notin httpCalls'
                      /\ tasks'[b].error =
                            DependencyFailedMessage(tasks[b].targetDependencies[i].sourceApiId)]_vars

\* what a failed resolution leaves behind
C4_FailureRecorded ==
    \A b \in ApiIds :
        tasks[b].error \notin {"none", TransportErrorMessage} =>
            /\ b \notin httpCalls
            /\ ContextOf(context, b) = {}
            /\ tasks[b].pc = "done" => RowIs(b, "FAILED", tasks[b].error)

\* an endpoint is called only if every source it depends on was ready
C4_CalledOnlyWhenReady ==
    \A c \in httpCalls :
        \A i \in 1..Len(tasks[c].targetDependencies) :
            ~NotReady(context, tasks[c].targetDependencies[i].sourceApiId)

\* C4 (amended): if a source of B is not ready when B resolves its inputs, B
\* issues no HTTP call, is marked FAILED and publishes no context entry; the
\* errorMessage names the first not-ready source in the order of B's
\* targetDependencies (or is the TypeError of an earlier dependency whose source
\* answered with a null body); B's dependents find B not ready in turn.
C4_DependencyFailure ==
    /\ [][\A b \in ApiIds :
            (Resolves(b) /\ \E i \in 1..Len(tasks[b].targetDependencies) :
                               NotReady(context, tasks[b].targetDependencies[i].sourceApiId)) =>
                LET td == tasks[b].targetDependencies
                    first == FirstNotReady(td, context)
                IN /\ tasks'[b].pc = "failing"
                   /\ b \notin httpCalls'
                   /\ tasks'[b].error =
                         IF NullBodyBefore(td, context, first) # {}
                         THEN LET j == CHOOSE j \in NullBodyBefore(td, context, first) :
                                         \A k \in NullBodyBefore(td, context, first) : j <= k
                              IN NullResponseMessage(FirstSourcePath(td[j].mapping))
                         ELSE DependencyFailedMessage(td[first].sourceApiId)]_vars
    /\ []C4_FailureRecorded
    /\ []C4_CalledOnlyWhenReady

\* a1 answered 404, a2 failed on a1 and a3, a dependent of a2 only, failed on a2
C4_Witness ==
    /\ \E e \in context : e.apiId = "a1" /\ e.status = 404
    /\ RowIs("a2", "FAILED", DependencyFailedMessage("a1"))
    /\ RowIs("a3", "FAILED", DependencyFailedMessage("a2"))
    /\ \A i \in 1..Len(tasks["a3"].targetDependencies) :
          tasks["a3"].targetDependencies[i].sourceApiId = "a2"
    /\ httpCalls = {"a1"}

\* the executed Apis of the plan
Planned == UNION {Range(run.executionLevels[k]) : k \in 1..Len(run.executionLevels)}

\* C5: once the planner has succeeded the run returns COMPLETED whatever happens
\* to the endpoints: ERROR comes from the planner only, a started run can always
\* go on, and at COMPLETED every planned endpoint has been executed, a failed
\* resolution or a transport error being FAILED with its message on the row.
C5_RunCompletes ==
    /\ (ret.op = "executeRun" /\ ret.status = "ERROR") =>
          (ret.error = CycleError /\ run.executionLevels = <<>> /\ executions = {})
    /\ run.pc \in {"layer", "completing"} => ENABLED NextRun
    /\ (ret.op = "executeRun" /\ ret.status = "COMPLETED") =>
          \A a \in Planned :
              /\ tasks[a].pc = "done"
              /\ \E e \in RowsOf(a) : e.status \in {"PASSED", "FAILED"}
              /\ tasks[a].error # "none" => RowIs(a, "FAILED", tasks[a].error)
              /\ (GotResponse(a) /\ tasks[a].response.status >= 400) =>
                    RowIs(a, "FAILED", "none")

\* C6: when the dependencies of the project contain a cycle, executeRun ends with
\* ERROR, creates no TestExecution row and issues no HTTP call.
C6_CycleEndsInError ==
    (run.pc # "idle" /\ HasCycle(EdgesInside(deps, run.projectId))) =>
        /\ executions = {}
        /\ httpCalls = {}
        /\ run.pc = "done" => (ret.op = "executeRun" /\ ret.status = "ERROR")

\* C7: an endpoint that answered with status s is PASSED iff 200 <= s < 400 and
\* FAILED for every other status.
C7_PassedIff2xx3xx ==
    \A a \in ApiIds :
        (tasks[a].pc = "done" /\ GotResponse(a)) =>
            \E e \in RowsOf(a) :
                e.status = IF 200 <= tasks[a].response.status /\ tasks[a].response.status < 400
                           THEN "PASSED" ELSE "FAILED"

\* ------------------------------------------------------------------------
\* Properties of the registry, the ingest and the analysis
\* ------------------------------------------------------------------------
NoCallInProgress == \A c \in Callers : calls[c].pc = "idle"

\* C8: after any sequence of ingest, createDependency and deleteDependency
\* operations (none in progress), every Variable of a dependency's target that
\* is named by a key of its mapping has varType 'dependent'.
C8_MappedVariablesDependent ==
    NoCallInProgress =>
        \A d \in deps : \A v \in variables :
            (v.apiId = d.targetApiId /\ v.name \in Keys(d.mapping)) => v.varType = "dependent"

\* a createDependency call with source = target returns in this step
SelfCallReturns ==
    /\ ret'.op = "createDependency"
    /\ ret'.sourceApiId = ret'.targetApiId
    /\ UNCHANGED <<calls, analysis>>

\* C9: no self-edge ever exists: no ApiDependency and no DependencyCandidate has
\* its source as its target; createDependency with source = target fails with
\* the self-dependency error and changes no ApiDependency and no varType.
C9_NoSelfEdge ==
    /\ [](\A d \in deps : d.sourceApiId # d.targetApiId)
    /\ [](\A x \in BagToSet(candidates) : x.sourceApiId # x.targetApiId)
    /\ []((ret.op = "createDependency" /\ ret.sourceApiId = ret.targetApiId) =>
             ret.error = SelfDependencyError)
    /\ [][SelfCallReturns => UNCHANGED <<deps, variables>>]_vars

\* createDependency(a2, a2) was rejected while an analysis that skipped a
\* proposal of an Api for itself is writing the candidates it kept
C9_Witness ==
    /\ ret.op = "createDependency" /\ ret.error = SelfDependencyError
    /\ analysis.pc = "create" /\ analysis.skippedSelf >= 1
    /\ deps # {}
    /\ analysis.pending # <<>>

\* the caller c completes its upsert in this step, for a pair that had a row
\* when the upsert read the table
UpsertsExisting(c) ==
    /\ calls'[c].pc = "mark"
    /\ \/ calls[c].pc = "idle" /\ DepsOfPair(deps, calls'[c].sourceApiId, calls'[c].targetApiId) # {}
       \/ calls[c].pc = "found"

\* C10: there is at most one ApiDependency row per (source, target), whatever
\* the interleaving of the calls; a call for a pair that has a row creates no
\* row and replaces the row's mapping and isRequired by its own.
C10_OneRowPerPair ==
    /\ [](\A d1 \in deps : \A d2 \in deps :
            (d1.sourceApiId = d2.sourceApiId /\ d1.targetApiId = d2.targetApiId) => d1 = d2)
    /\ [][\A c \in Callers :
            /\ UpsertsExisting(c) =>
                 /\ Cardinality(deps') = Cardinality(deps)
                 /\ DepsOfPair(deps', calls'[c].sourceApiId, calls'[c].targetApiId) =
                      {DepRow(calls'[c].sourceApiId, calls'[c].targetApiId,
                              calls'[c].mapping, calls'[c].isRequired)}
            /\ (calls[c].pc = "absent" /\ calls'[c].pc = "idle") => deps' = deps]_vars

\* the row of (a1, a2) was written with {id: id}, a concurrent create of the
\* same pair failed on the unique key, and a later call replaced the mapping
C10_Witness ==
    /\ deps = {DepRow("a1", "a2", AuthMapping, FALSE)}
    /\ Variable("a2", "id", "path", "dependent") \in variables
    /\ ret.op = "createDependency" /\ ret.error = UniqueViolation
    /\ \E c \in Callers : calls[c].pc = "mark"

\* ------------------------------------------------------------------------
\* Properties of the ingest (SpecIngest).
\* ------------------------------------------------------------------------
\* What the specification expects of one document: its ApiSpec row exists,
\* and each of its Apis exists with the children of the document in place of
\* those it had.
ApplySpec(cat, doc) ==
    [cat EXCEPT !.apiSpecs = @ \cup {[projectId |-> doc.projectId, specHash |-> doc.specHash]}]

ApplyOperation(cat, o) ==
    LET a == o.apiId
    IN [cat EXCEPT
          !.apis = @ \cup {a},
          !.requests = {x \in @ : x.apiId # a} \cup {RequestRow(o)},
          !.responses = {x \in @ : x.apiId # a} \cup ResponseRows(o),
          !.variables = {v \in @ : v.apiId # a} \cup VariableRows(o)]

RECURSIVE ApplyOperations(_, _)
ApplyOperations(cat, ops) ==
    IF ops = <<>> THEN cat ELSE ApplyOperations(ApplyOperation(cat, Head(ops)), Tail(ops))

\* the complete effect of one document on the tables
ApplyDocument(cat, doc) == ApplyOperations(ApplySpec(cat, doc), OperationsOf(doc))

IngestFailed == ret.op = "processOpenParams" /\ ret.error # "none"

\* C11: a processOpenParams call that fails leaves the catalog exactly as it
\* was, and the committed tables, which are all a concurrent reader can see,
\* only ever change by the complete effect of one document whose call
\* succeeds: no step of a call shows a part of its writes.
C11_AllOrNothing ==
    [][/\ Catalog' # Catalog =>
             \E g \in Ingesters :
                /\ ingests[g].pc = "commit"
                /\ ret'.error = "none"
                /\ Catalog' = ApplyDocument(Catalog, ingests[g].doc)
       /\ (ret' # ret /\ ret'.error # "none") => Catalog' = Catalog]_vars

\* a call failed after it had written Apis inside its transaction, while a
\* catalog committed by another call exists
C11_Witness ==
    /\ IngestFailed
    /\ ret.error \in {TransactionTimeout, UniqueViolation}
    /\ ret.written # {}
    /\ apis # {}

IngestCommitted(g) ==
    ingests[g].pc = "commit" /\ ingests'[g].pc = "idle" /\ ret'.error = "none"

\* the tables hold exactly the rows of the document for each of its Apis
Ingested(cat, doc) ==
    /\ SpecRow(doc) \in cat.apiSpecs
    /\ \A o \in doc.operations :
          /\ o.apiId \in cat.apis
          /\ {x \in cat.requests : x.apiId = o.apiId} = {RequestRow(o)}
          /\ {x \in cat.responses : x.apiId = o.apiId} = ResponseRows(o)
          /\ {v \in cat.variables : v.apiId = o.apiId} = VariableRows(o)

\* C12: ingesting a document leaves the tables holding its ApiSpec row and,
\* for each of its Apis, exactly its ApiRequest, ApiResponse and Variable
\* rows; ingesting it again into tables that already hold them changes no
\* row: twice is the same as once.
C12_Idempotent ==
    [][\A g \in Ingesters :
          IngestCommitted(g) =>
             /\ Ingested(Catalog', ingests[g].doc)
             /\ Ingested(Catalog, ingests[g].doc) => Catalog' = Catalog]_vars

\* a document was ingested a second time: its hash was found, every Api of
\* it was found and rewritten, and the tables hold the document's rows
C12_Witness ==
    /\ ret.op = "processOpenParams" /\ ret.error = "none"
    /\ ret.duplicate
    /\ ret.written # {} /\ ret.updated = ret.written
    /\ \E doc \in IngestDocuments :
          /\ {o.apiId : o \in doc.operations} = ret.written
          /\ Ingested(Catalog, doc)

RowsOfApi(rows, a) == {x \in rows : x.apiId = a}

\* C13: whatever ingests succeeded or failed, every Api has exactly one
\* ApiRequest row, no two of its ApiResponse rows have the same status code,
\* and no two of its Variable rows have the same (name, location).
C13_ChildRowsUnique ==
    \A a \in apis :
       /\ Cardinality(RowsOfApi(requests, a)) = 1
       /\ \A x, y \in RowsOfApi(responses, a) : x.statusCode = y.statusCode => x = y
       /\ \A v, w \in RowsOfApi(variables, a) :
             (v.name = w.name /\ v.location = w.location) => v = w

\* an ingest of another document found an Api and replaced its children
C13_Witness ==
    /\ ret.op = "processOpenParams" /\ ret.error = "none"
    /\ ~ret.duplicate
    /\ ret.updated # {}
    /\ \E a \in ret.updated : RowsOfApi(variables, a) # {}

\* ------------------------------------------------------------------------
\* Properties of the candidate analysis (SpecCandidates).
\* ------------------------------------------------------------------------
BagOfSeq(q) == [x \in Range(q) |-> Cardinality({i \in 1..Len(q) : q[i] = x})]

\* C14: a getCandidates of a project whose analysis is replacing the
\* candidates returns the complete previous set or the complete new set,
\* never an empty or a partly written one.
C14_AtomicReplace ==
    (/\ ret.op = "getCandidates"
     /\ analysis.pc = "create"
     /\ ret.projectId = analysis.projectId)
    => ret.rows \in {analysis.previous, BagOfSeq(analysis.rows)}

AuthRows ==
    {x \in BagToSet(candidates) :
        x.sourceApiId = "a3" /\ x.targetApiId = "a4" /\ x.mapping = AuthMapping}

\* C15: once the analysis of a project holding only a token producer (a3) and
\* a bearer-secured consumer with a synthesized Authorization header (a4) has
\* returned, exactly one candidate a3 -> a4 {Authorization: accessToken}
\* exists, with confidence 1.0; and no candidate with that deterministic
\* mapping has a confidence below 1.0.
C15_DeterministicAuth ==
    /\ (/\ ret.op = "analyzeProjectVariables" /\ ret.success
        /\ analysis.pc = "idle"
        /\ apis = {"a3", "a4"} /\ Ingested(Catalog, DocBearer))
       => /\ Cardinality(AuthRows) = 1
          /\ \A x \in AuthRows : candidates[x] = 1 /\ x.confidence = 100
    /\ \A x \in BagToSet(candidates) : x.mapping = AuthMapping => x.confidence = 100

\* the caps that apply to a candidate, in hundredths
ApplicableCaps(source, target, m) ==
    {80}
    \cup (IF UsesId(m) \/ "{id}" \in Range(PathOf(target)) THEN {60} ELSE {})
    \cup (IF IsLifecycle(PathOf(source)) THEN {50} ELSE {})
    \cup (IF ~(MethodOf(source) = "POST" /\ "{id}" \notin Range(PathOf(source)))
          THEN {60} ELSE {})

\* C16: the confidence of every persisted candidate lies in [0, 1] and is the
\* lowest cap that applies to it: 0.6 for an id mapping or an {id} target, 0.5
\* for a lifecycle source, 0.6 for a source that is no POST on a collection,
\* 0.7 for a GET source (which the 0.6 of a non-create source already
\* bounds), 0.8 otherwise.
C16_LowestCap ==
    \A x \in BagToSet(candidates) :
       LET caps == ApplicableCaps(x.sourceApiId, x.targetApiId, x.mapping)
       IN /\ x.confidence \in 0..100
          /\ x.confidence \in caps
          /\ \A c \in caps : x.confidence <= c
          /\ MethodOf(x.sourceApiId) = "GET" => x.confidence <= 70

\* candidates capped at 0.5, at 0.6 and at 0.8 are persisted together
C16_Witness ==
    /\ analysis.pc = "idle"
    /\ {50, 60, 80} \subseteq {x.confidence : x \in BagToSet(candidates)}

\* C17: every key of the mapping of a persisted candidate is the name of a
\* Variable of the candidate's target Api: a proposal for a variable the
\* target does not declare (randomField) is not persisted.
C17_MappingKeysDeclared ==
    \A x \in BagToSet(candidates) :
       \A k \in Keys(x.mapping) :
          \E v \in variables : v.apiId = x.targetApiId /\ v.name = k

FailedBatchStep == analysis.pc = "batch" /\ analysis'.failed # analysis.failed

\* C18: a batch that fails adds nothing and stops nothing: the loop goes on
\* to the next batch with the candidates collected so far, every batch is
\* sent before the old candidates are deleted, the rows persisted are those of
\* the deterministic candidates and of the replies that parsed, and an
\* analysis with a failed batch returns success.
C18_BatchFailureIsolated ==
    /\ [][FailedBatchStep =>
             /\ analysis'.all = analysis.all
             /\ analysis'.sent = analysis.sent + 1
             /\ analysis'.pc = IF analysis.sent + 1 < analysis.batches THEN "batch" ELSE "delete"
             /\ UNCHANGED <<ret, candidates>>]_vars
    /\ [](analysis.pc \in {"delete", "create"} => analysis.sent = analysis.batches)
    /\ [](analysis.pc = "create" =>
             analysis.rows = RowsToCreate(analysis.all, analysis.apis, analysis.responses))
    /\ []((ret.op = "analyzeProjectVariables" /\ ret.failed # {}) =>
             ret.success /\ ret.sent = ret.batches)

\* an analysis of two batches returned after one of them failed, with the
\* deterministic candidate and a candidate of the other batch persisted
C18_Witness ==
    /\ ret.op = "analyzeProjectVariables" /\ ret.success
    /\ ret.batches = 2 /\ Cardinality(ret.failed) = 1
    /\ ret.candidates >= 2
    /\ \E x \in BagToSet(candidates) : x.mapping = AuthMapping
    /\ \E x \in BagToSet(candidates) : x.mapping # AuthMapping

\* ------------------------------------------------------------------------
\* Properties of the request body (SpecBody).
\* ------------------------------------------------------------------------
\* C19: the ApiRequest of an ingested operation holds the schema of the first
\* content type that contains json, else of the first that contains multipart,
\* else urlencoded, else of the first listed, whatever the order of the list;
\* an operation without a body has no body schema and no body Variable, and
\* its parameters are stored all the same.
C19_PreferredContentType ==
    \A doc \in BodyDocuments :
       SpecRow(doc) \in apiSpecs =>
          \A o \in doc.operations :
             /\ RowsOfApi(requests, o.apiId) =
                   {[apiId |-> o.apiId, bodySchema |-> PreferredBodySchema(o.content)]}
             /\ o.content = <<>> =>
                   \A v \in RowsOfApi(variables, o.apiId) : v.location # "body"
             /\ \A x \in o.variables :
                   Variable(o.apiId, x[1], x[2], x[3]) \in variables

\* ------------------------------------------------------------------------
\* Properties of the project deletion (SpecProject).
\* ------------------------------------------------------------------------
DeleteCommitted ==
    /\ deletion.pc = "transaction" /\ deletion'.pc = "idle"
    /\ ret'.op = "deleteProject" /\ ret'.error = "none"

\* the rows of a table that do not reference the project, given which do
Unrelated(rows, Ref(_)) == {x \in rows : ~Ref(x)}

\* C20: a deleteProject that succeeds removes the Project and every Api,
\* ApiSpec, ApiRequest, ApiResponse, Variable, DependencyCandidate and
\* ApiDependency row that references it (for the last two, by their source or
\* their target), keeps every TestRun, those of the project with projectId
\* null, and changes no row that does not reference the project: of the run
\* history, every TestExecution is kept, those of the project's Apis with
\* apiId null, and every ExecutionArtifact is kept.
C20_DeleteProject ==
    [][DeleteCommitted =>
          LET p == deletion.projectId
              OfP(a) == a # "null" /\ ProjectOf(a) = p
              ByApi(x) == OfP(x.apiId)
              ByEnds(x) == OfP(x.sourceApiId) \/ OfP(x.targetApiId)
              ByProject(x) == x.projectId = p
          IN /\ projects' = projects \ {p}
             /\ apis' = {a \in apis : ~OfP(a)}
             /\ apiSpecs' = Unrelated(apiSpecs, ByProject)
             /\ requests' = Unrelated(requests, ByApi)
             /\ responses' = Unrelated(responses, ByApi)
             /\ variables' = Unrelated(variables, ByApi)
             /\ deps' = Unrelated(deps, ByEnds)
             /\ BagToSet(candidates') = Unrelated(BagToSet(candidates), ByEnds)
             /\ \A x \in BagToSet(candidates') : candidates'[x] = candidates[x]
             /\ {r.id : r \in testRuns'} = {r.id : r \in testRuns}
             /\ Unrelated(testRuns', ByProject) =
                   Unrelated(testRuns, ByProject)
                   \cup {[r EXCEPT !.projectId = "null"] : r \in {x \in testRuns : ByProject(x)}}
             /\ \A r \in testRuns' : r.projectId # p
             /\ executions' =
                   {e \in executions : ~ByApi(e)}
                   \cup {[e EXCEPT !.apiId = "null"] : e \in {x \in executions : ByApi(x)}}
             /\ artifacts' = artifacts]_vars

\* project p1 was deleted: its run is kept with projectId null, the execution
\* of its Api with apiId null and the artifact of that execution; p2 is still
\* there with its Apis, its dependency, its candidate, its run and the
\* execution of that run
C20_Witness ==
    /\ ret.op = "deleteProject" /\ ret.error = "none" /\ ret.projectId = "p1"
    /\ projects = {"p2"}
    /\ [id |-> "r1", projectId |-> "null"] \in testRuns
    /\ [id |-> "r2", projectId |-> "p2"] \in testRuns
    /\ deps = {DepRow("b1", "b2", IdMapping, TRUE)}
    /\ BagToSet(candidates) = {CandidateRow("b1", "b2", IdMapping, {})}
    /\ apis = {"b1", "b2"}
    /\ {[id |-> e.id, apiId |-> e.apiId] : e \in executions} =
          {[id |-> "a1", apiId |-> "null"], [id |-> "b1", apiId |-> "b1"]}
    /\ artifacts = ProjectArtifacts

\* ------------------------------------------------------------------------
\* Further properties of the planner (SpecPlan).
\* ------------------------------------------------------------------------
RECURSIVE Flatten(_)
Flatten(levels) == IF levels = <<>> THEN <<>> ELSE Head(levels) \o Flatten(Tail(levels))

\* the number of places an Api takes in the levels
PlacesIn(a, levels) == Cardinality({i \in 1..Len(Flatten(levels)) : Flatten(levels)[i] = a})

\* C21: whenever buildExecutionGraph returns, executionLevels is a partition
\* of the Apis of the project (each in exactly one level, no level empty, no
\* other member), level 0 is exactly the Apis no ApiDependency targets, and
\* sortedOrder is the concatenation of the levels.
C21_LevelsPartition ==
    PlanReturned =>
        LET A == ProjectApis(apis, ret.projectId)
            L == ret.executionLevels
        IN /\ \A a \in A : PlacesIn(a, L) = 1
           /\ Range(Flatten(L)) \subseteq A
           /\ \A i \in 1..Len(L) : L[i] # <<>>
           /\ A # {} => /\ Len(L) >= 1
                        /\ Range(L[1]) = {a \in A : \A d \in deps : d.targetApiId # a}
           /\ ret.sortedOrder = Flatten(L)

\* ------------------------------------------------------------------------
\* Further properties of the run (SpecRun).
\* ------------------------------------------------------------------------
RunCompleted == ret.op = "executeRun" /\ ret.status = "COMPLETED"

\* C22: in every run that returns COMPLETED there is exactly one TestExecution
\* row per Api of the project (and none of another Api), each called endpoint
\* is an Api of the project, and every row is PASSED or FAILED, none RUNNING.
C22_OneRowPerApi ==
    RunCompleted =>
        LET A == ProjectApis(apis, run.projectId)
        IN /\ \A a \in A : Cardinality(RowsOf(a)) = 1
           /\ \A e \in executions : e.apiId \in A /\ e.status \in {"PASSED", "FAILED"}
           /\ httpCalls \subseteq A

\* the task of a writes context[a] in this step
WritesContext(a) == tasks[a].pc = "inflight" /\ tasks'[a].pc = "responded"

\* C23: within a run the context entry of an Api is written at most once, by
\* the Api's own task when its response arrives, and is never modified or
\* removed afterwards; an Api takes one place in the levels, so no two tasks
\* of a layer write the same key.
C23_ContextWrittenOnce ==
    /\ [][\A a \in ApiIds :
            ContextOf(context', a) # ContextOf(context, a) =>
                /\ ContextOf(context, a) = {}
                /\ WritesContext(a)
                /\ ContextOf(context', a) =
                      {[apiId |-> a, status |-> tasks'[a].response.status,
                        response |-> tasks'[a].response.data]}]_vars
    /\ [](\A a \in ApiIds : PlacesIn(a, run.executionLevels) <= 1)
    /\ [](\A a \in ApiIds : Cardinality(ContextOf(context, a)) <= 1)

\* two endpoints of the first layer answered concurrently and a second-layer
\* endpoint answered after them: three entries, each still the one written
C23_Witness ==
    /\ Len(run.executionLevels) >= 2
    /\ Len(run.executionLevels[1]) >= 2
    /\ \A a \in Range(run.executionLevels[1]) : ContextOf(context, a) # {}
    /\ \E b \in Range(run.executionLevels[2]) : ContextOf(context, b) # {}
    /\ \A e \in context : e.status = tasks[e.apiId].response.status

\* C24: every TestExecution that reached PASSED or FAILED has at least one
\* ExecutionArtifact row, also when it failed on a dependency source that was
\* not ready or on a transport error of its call.
C24_ArtifactPerExecution ==
    \A e \in executions : e.status \in {"PASSED", "FAILED"} => e.id \in artifacts

\* ------------------------------------------------------------------------
\* Further properties of the analysis (SpecAnalysis).
\* ------------------------------------------------------------------------
\* analyzeProjectVariables returns success in this step
AnalysisSucceeds ==
    /\ ret'.op = "analyzeProjectVariables" /\ ret'.success
    /\ analysis'.pc = "idle"
    /\ analysis.pc # "idle" \/ ret' # ret

\* the rows the returning invocation accepted
AcceptedRows == IF analysis.pc = "create" THEN BagOfSeq(analysis.rows) ELSE EmptyBag

\* C25: whenever analyzeProjectVariables returns success, the project's
\* DependencyCandidate rows are exactly the candidates that invocation
\* accepted; none of an earlier analysis remains, also when the invocation
\* finds no consumer with a user_input Variable.
C25_CandidatesReplaced ==
    [][AnalysisSucceeds => OfProject(candidates', ret'.projectId) = AcceptedRows]_vars

\* ------------------------------------------------------------------------
\* Further properties of the ingest (SpecIngest).
\* ------------------------------------------------------------------------
EmptyCatalog ==
    [apis |-> {}, apiSpecs |-> {}, requests |-> {}, responses |-> {}, variables |-> {}]

\* the call of g returns in this step while another call for the same
\* project and document is in its transaction
ReturnsBesideSame(g) ==
    /\ ingests[g].pc # "idle" /\ ingests'[g].pc = "idle"
    /\ \E h \in Ingesters \ {g} :
          ingests[h].pc # "idle" /\ ingests[h].doc = ingests[g].doc

\* C26: of two concurrent processOpenParams calls for the same project and
\* document each commits completely or rolls back completely, and in every
\* resulting state the tables hold one ApiSpec row per (project, hash), one
\* ApiRequest per Api and, when no other document was ingested, exactly the
\* catalog of a single ingest of the document.
C26_ConcurrentSameDocument ==
    /\ [][\A g \in Ingesters :
            ReturnsBesideSame(g) =>
               IF ret'.error = "none"
               THEN Catalog' = ApplyDocument(Catalog, ingests[g].doc)
               ELSE Catalog' = Catalog]_vars
    /\ [](\A doc \in IngestDocuments :
             apiSpecs = {SpecRow(doc)} => Catalog = ApplyDocument(EmptyCatalog, doc))
    /\ [](\A a \in apis : Cardinality(RowsOfApi(requests, a)) = 1)
    /\ [](\A x, y \in apiSpecs :
             (x.projectId = y.projectId /\ x.specHash = y.specHash) => x = y)

\* two calls for DocOrders were in flight together, neither finding the
\* ApiSpec row: one committed, and the other's apiSpec.create then failed on
\* the unique index and rolled back; the catalog is that of one ingest
C26_Witness ==
    /\ ret.op = "processOpenParams" /\ ret.error = UniqueViolation
    /\ ~ret.duplicate /\ ret.written = {}
    /\ \A g \in Ingesters : ingests[g].pc = "idle"
    /\ Catalog = ApplyDocument(EmptyCatalog, DocOrders)

\* C27: buildExecutionGraph fails with the cycle error only if the
\* ApiDependency rows contain a directed cycle: for every acyclic set of rows,
\* also one with a dependency from an Api of the project to an Api of another
\* project, planning succeeds.
C27_CycleErrorOnlyOnCycle ==
    PlanThrew => HasCycle(deps)

\* the execution of a is marked PASSED
Passed(a) == \E e \in RowsOf(a) : e.status = "PASSED"

\* the task of b is past its input resolution
Resolved(b) == tasks[b].pc \in {"failing", "inflight", "responded", "artifact", "done"}

\* C28: the status classification and the input resolution agree: an endpoint
\* whose dependency sources are all marked PASSED resolves its inputs and is
\* called, and no execution fails with 'Dependency failed' on a source whose
\* own execution is PASSED.
C28_PassedSourceResolves ==
    \A b \in ApiIds :
        LET td == tasks[b].targetDependencies
        IN /\ (Resolved(b) /\ \A i \in 1..Len(td) : Passed(td[i].sourceApiId)) => b \in httpCalls
           /\ \A src \in ApiIds : tasks[b].error = DependencyFailedMessage(src) => ~Passed(src)

\* ------------------------------------------------------------------------
\* Further properties of the registry (Spec).
\* ------------------------------------------------------------------------
\* C29: after any sequence of createDependency, deleteDependency and ingest
\* operations (none in progress), a Variable has varType 'dependent' only if
\* an existing ApiDependency targets its Api and has its name as a mapping key.
C29_DependentOnlyIfMapped ==
    NoCallInProgress =>
        \A v \in variables :
            v.varType = "dependent" =>
                \E d \in deps : d.targetApiId = v.apiId /\ v.name \in Keys(d.mapping)

\* ------------------------------------------------------------------------
\* The executor against the planner (SpecRun).
\* ------------------------------------------------------------------------
\* src was executed in a layer before that of b and ended without a status < 300
FailedEarlier(src, b) ==
    /\ LevelOf(src, run.executionLevels) > 0
    /\ LevelOf(src, run.executionLevels) < LevelOf(b, run.executionLevels)
    /\ tasks[src].pc = "done"
    /\ NotReady(context, src)

\* C30: the executor resolves an endpoint against the dependencies the planner
\* ordered: an execution fails with 'Dependency failed' on a source only if
\* that source was executed in an earlier layer of the run and ended without
\* a status < 300, and an endpoint of level 0 never fails its input
\* resolution, also when a source of it belongs to another project.
C30_ResolvesWhatWasPlanned ==
    \A b \in ApiIds :
        /\ \A src \in ApiIds :
              tasks[b].error = DependencyFailedMessage(src) => FailedEarlier(src, b)
        /\ LevelOf(b, run.executionLevels) = 1 =>
              tasks[b].error \in {"none", TransportErrorMessage, ApiNotFoundMessage,
                                   ForeignKeyViolation}

====
